---- MODULE Spec2Model ----
(***************************************************************************)
(* Drift analysis engine (scripts/drift-detection/drift-detector.py) and   *)
(* report store (database/drift_database.py) of the iacdrift repository.   *)
(*                                                                         *)
(* Python dicts are modelled as they behave: a resource descriptor is a    *)
(* function whose DOMAIN is the set of keys present (d.get(k, default)     *)
(* is Get(d, k, default)); a partition (name -> descriptor) is a sequence  *)
(* of name/descriptor entries with distinct names, because iteration       *)
(* follows insertion order while equality of dicts ignores it.             *)
(* Text is a sequence of one-character strings wherever the code looks     *)
(* inside it (split, substring, lexicographic comparison).                 *)
(***************************************************************************)
EXTENDS Integers, Sequences, FiniteSets, TLC

VARIABLES
    terraform_state,   \* run_drift_detection: result of get_terraform_state (None or a state)
    docker_state,      \* run_drift_detection: result of get_docker_state (None or a state)
    run_pc,            \* position of run_drift_detection
    drift_detected,    \* first component of analyze_drift's result
    drift_details,     \* second component of analyze_drift's result
    report,            \* the report built by generate_drift_report (None before)
    config,            \* self.config: the monitoring settings of the detector
    out,               \* what the run has done so far: saved, notified, logged, exit code
    db,                \* committed content of the SQLite file: the three tables and sqlite_sequence
    now,               \* the wall clock read by datetime.now()
    last,              \* the last completed store operation with its arguments and result
    conn,              \* per caller: position and open transaction of its connection
    wlock,             \* the caller holding SQLite's write lock, or None
    returned,          \* identifiers returned by store_report, in commit order
    twin               \* per environment E: the SQLite file of a second store that gets
                       \* the same calls, except store_report of reports of other environments

vars == <<terraform_state, docker_state, run_pc, drift_detected, drift_details,
          report, config, out, db, now, last, conn, wlock, returned, twin>>

detector_vars == <<terraform_state, docker_state, run_pc, drift_detected, drift_details,
                   report, config, out>>
store_vars == <<db, now, last>>
conc_vars == <<conn, wlock, returned>>

\* Python's None where a dict is expected (a state, a report, a row)
None == [None |-> TRUE]

\* Python's None where a string is expected
NoneStr == "None"

(***************************************************************************)
(* Python helpers                                                          *)
(***************************************************************************)

\* dict.get(key, default)
Get(d, key, default) == IF key \in DOMAIN d THEN d[key] ELSE default

\* the empty dict {}
EmptyDict == [k \in {} |-> None]

\* str.split(':')[0]: the text before the first colon
RECURSIVE SplitColonFirst(_)
SplitColonFirst(s) ==
    IF s = <<>> THEN <<>>
    ELSE IF Head(s) = ":" THEN <<>>
    ELSE <<Head(s)>> \o SplitColonFirst(Tail(s))

\* Python's `x in y` on strings
IsSubstring(x, y) ==
    \E i \in 0..(Len(y) - Len(x)) : SubSeq(y, i + 1, i + Len(x)) = x

\* `name in partition` for an insertion-ordered dict
HasKey(part, n) == \E i \in 1..Len(part) : part[i].name = n

\* partition[name]
Lookup(part, n) == part[CHOOSE i \in 1..Len(part) : part[i].name = n].cfg

\* the mapping a partition denotes (dict equality ignores insertion order)
AsMapping(part) == {<<part[i].name, part[i].cfg>> : i \in 1..Len(part)}

Finding(type, severity, resource) ==
    [type |-> type, severity |-> severity, resource |-> resource]

(***************************************************************************)
(* DriftDetector.analyze_*_drift: every function threads the pair          *)
(* (drift_detected, drift_details) through its checks; a check that hits   *)
(* sets the flag and appends one finding.                                  *)
(***************************************************************************)

NoDrift == [detected |-> FALSE, details |-> <<>>]

\* if cond: drift_detected = True; drift_details.append(finding)
Emit(acc, cond, finding) ==
    IF cond THEN [detected |-> TRUE, details |-> Append(acc.details, finding)] ELSE acc

\* were the status check to compare the status texts
ContainerChecks_StatusText(acc, expected_name, expected_config, actual_config) ==
    LET expected_image == SplitColonFirst(Get(expected_config, "image", <<>>))
        actual_image == SplitColonFirst(Get(actual_config, "image", <<>>))
        expected_ports == Get(expected_config, "ports", <<>>)
        actual_ports == Get(actual_config, "ports", <<>>)
        expected_restart == Get(expected_config, "restart", "")
        actual_restart == Get(Get(actual_config, "restart_policy", EmptyDict), "Name", "")
        health_status == Get(actual_config, "health_status", "none")
        a1 == Emit(acc,
                   Get(expected_config, "status", NoneStr) = "running"
                     /\ Get(actual_config, "status", "unknown") # "running",
                   Finding("container_status_drift", "high", expected_name))
        a2 == Emit(a1,
                   expected_image # <<>> /\ actual_image # <<>>
                     /\ ~IsSubstring(expected_image, actual_image),
                   Finding("image_drift", "medium", expected_name))
        a3 == Emit(a2,
                   Len(expected_ports) # Len(actual_ports),
                   Finding("port_count_drift", "medium", expected_name))
        a4 == Emit(a3,
                   expected_restart # "" /\ expected_restart # actual_restart,
                   Finding("restart_policy_drift", "low", expected_name))
    IN  Emit(a4,
             health_status \notin {"healthy", "none"} /\ Get(actual_config, "running", FALSE),
             Finding("health_drift", "high", expected_name))

\* were the health of a container checked whether it runs or not
ContainerChecks_HealthAnyState(acc, expected_name, expected_config, actual_config) ==
    LET expected_image == SplitColonFirst(Get(expected_config, "image", <<>>))
        actual_image == SplitColonFirst(Get(actual_config, "image", <<>>))
        expected_ports == Get(expected_config, "ports", <<>>)
        actual_ports == Get(actual_config, "ports", <<>>)
        expected_restart == Get(expected_config, "restart", "")
        actual_restart == Get(Get(actual_config, "restart_policy", EmptyDict), "Name", "")
        health_status == Get(actual_config, "health_status", "none")
        a1 == Emit(acc,
                   Get(expected_config, "status", NoneStr) = "running"
                     /\ ~Get(actual_config, "running", FALSE),
                   Finding("container_status_drift", "high", expected_name))
        a2 == Emit(a1,
                   expected_image # <<>> /\ actual_image # <<>>
                     /\ ~IsSubstring(expected_image, actual_image),
                   Finding("image_drift", "medium", expected_name))
        a3 == Emit(a2,
                   Len(expected_ports) # Len(actual_ports),
                   Finding("port_count_drift", "medium", expected_name))
        a4 == Emit(a3,
                   expected_restart # "" /\ expected_restart # actual_restart,
                   Finding("restart_policy_drift", "low", expected_name))
    IN  Emit(a4,
             health_status \notin {"healthy", "none"},
             Finding("health_drift", "high", expected_name))

\* drift-detector.py 404-474: the checks for an expected container found in actual
ContainerChecks(acc, expected_name, expected_config, actual_config) ==
    LET expected_image == SplitColonFirst(Get(expected_config, "image", <<>>))
        actual_image == SplitColonFirst(Get(actual_config, "image", <<>>))
        expected_ports == Get(expected_config, "ports", <<>>)
        actual_ports == Get(actual_config, "ports", <<>>)
        expected_restart == Get(expected_config, "restart", "")
        actual_restart == Get(Get(actual_config, "restart_policy", EmptyDict), "Name", "")
        health_status == Get(actual_config, "health_status", "none")
        a1 == Emit(acc,
                   Get(expected_config, "status", NoneStr) = "running"
                     /\ ~Get(actual_config, "running", FALSE),
                   Finding("container_status_drift", "high", expected_name))
        a2 == Emit(a1,
                   expected_image # <<>> /\ actual_image # <<>>
                     /\ ~IsSubstring(expected_image, actual_image),
                   Finding("image_drift", "medium", expected_name))
        a3 == Emit(a2,
                   Len(expected_ports) # Len(actual_ports),
                   Finding("port_count_drift", "medium", expected_name))
        a4 == Emit(a3,
                   expected_restart # "" /\ expected_restart # actual_restart,
                   Finding("restart_policy_drift", "low", expected_name))
    IN  Emit(a4,
             health_status \notin {"healthy", "none"} /\ Get(actual_config, "running", FALSE),
             Finding("health_drift", "high", expected_name))

\* ExpectedContainersFrom without the else: the checks also run for a missing container
RECURSIVE ExpectedContainersFrom_NoShortCircuit(_, _, _, _)
ExpectedContainersFrom_NoShortCircuit(acc, i, expected_containers, actual_containers) ==
    IF i > Len(expected_containers) THEN acc
    ELSE LET expected_name == expected_containers[i].name
             expected_config == expected_containers[i].cfg
             missing == ~HasKey(actual_containers, expected_name)
             a1 == Emit(acc, missing, Finding("missing_container", "high", expected_name))
             step == ContainerChecks(a1, expected_name, expected_config,
                                     IF missing THEN EmptyDict
                                     ELSE Lookup(actual_containers, expected_name))
         IN  ExpectedContainersFrom_NoShortCircuit(step, i + 1, expected_containers,
                                                   actual_containers)

\* the loop over expected_containers.items(), entries i..Len
RECURSIVE ExpectedContainersFrom(_, _, _, _)
ExpectedContainersFrom(acc, i, expected_containers, actual_containers) ==
    IF i > Len(expected_containers) THEN acc
    ELSE LET expected_name == expected_containers[i].name
             expected_config == expected_containers[i].cfg
             step == IF ~HasKey(actual_containers, expected_name)
                     THEN Emit(acc, TRUE, Finding("missing_container", "high", expected_name))
                     ELSE ContainerChecks(acc, expected_name, expected_config,
                                          Lookup(actual_containers, expected_name))
         IN  ExpectedContainersFrom(step, i + 1, expected_containers, actual_containers)

\* were a resource reported as unexpected only while nothing is missing
RECURSIVE UnexpectedFrom_UnlessMissing(_, _, _, _, _, _)
UnexpectedFrom_UnlessMissing(acc, i, expected, actual, type, severity) ==
    IF i > Len(actual) THEN acc
    ELSE UnexpectedFrom_UnlessMissing(
             Emit(acc, ~HasKey(expected, actual[i].name) /\ ~acc.detected,
                  Finding(type, severity, actual[i].name)),
             i + 1, expected, actual, type, severity)

\* the reverse loop over actual.keys(), entries i..Len: unexpected_<kind> findings
RECURSIVE UnexpectedFrom(_, _, _, _, _, _)
UnexpectedFrom(acc, i, expected, actual, type, severity) ==
    IF i > Len(actual) THEN acc
    ELSE UnexpectedFrom(Emit(acc, ~HasKey(expected, actual[i].name),
                             Finding(type, severity, actual[i].name)),
                        i + 1, expected, actual, type, severity)

\* were the unexpected containers collected before the expected ones
analyze_container_drift_UnexpectedFirst(expected_containers, actual_containers) ==
    ExpectedContainersFrom(UnexpectedFrom(NoDrift, 1, expected_containers, actual_containers,
                                          "unexpected_container", "medium"),
                           1, expected_containers, actual_containers)

\* drift-detector.py 386-489
analyze_container_drift(expected_containers, actual_containers) ==
    UnexpectedFrom(ExpectedContainersFrom(NoDrift, 1, expected_containers, actual_containers),
                   1, expected_containers, actual_containers,
                   "unexpected_container", "medium")

(***************************************************************************)
(* DriftDetector.analyze_network_drift                                     *)
(***************************************************************************)

\* were the drivers of a network never compared
RECURSIVE ExpectedNetworksFrom_NoDriverCheck(_, _, _, _)
ExpectedNetworksFrom_NoDriverCheck(acc, i, expected_networks, actual_networks) ==
    IF i > Len(expected_networks) THEN acc
    ELSE LET expected_name == expected_networks[i].name
             expected_config == expected_networks[i].cfg
             actual_config == Lookup(actual_networks, expected_name)
             expected_driver == Get(expected_config, "driver", "")
             actual_driver == Get(actual_config, "driver", "")
             expected_subnet == Get(expected_config, "subnet", "")
             actual_subnet == Get(actual_config, "subnet", "")
             step == IF ~HasKey(actual_networks, expected_name)
                     THEN Emit(acc, TRUE, Finding("missing_network", "high", expected_name))
                     ELSE Emit(acc,
                               expected_subnet # "" /\ expected_subnet # actual_subnet,
                               Finding("network_subnet_drift", "medium", expected_name))
         IN  ExpectedNetworksFrom_NoDriverCheck(step, i + 1, expected_networks, actual_networks)

\* the loop over expected_networks.items(), entries i..Len
RECURSIVE ExpectedNetworksFrom(_, _, _, _)
ExpectedNetworksFrom(acc, i, expected_networks, actual_networks) ==
    IF i > Len(expected_networks) THEN acc
    ELSE LET expected_name == expected_networks[i].name
             expected_config == expected_networks[i].cfg
             actual_config == Lookup(actual_networks, expected_name)
             expected_driver == Get(expected_config, "driver", "")
             actual_driver == Get(actual_config, "driver", "")
             expected_subnet == Get(expected_config, "subnet", "")
             actual_subnet == Get(actual_config, "subnet", "")
             step == IF ~HasKey(actual_networks, expected_name)
                     THEN Emit(acc, TRUE, Finding("missing_network", "high", expected_name))
                     ELSE Emit(Emit(acc,
                                    expected_driver # "" /\ expected_driver # actual_driver,
                                    Finding("network_driver_drift", "medium", expected_name)),
                               expected_subnet # "" /\ expected_subnet # actual_subnet,
                               Finding("network_subnet_drift", "medium", expected_name))
         IN  ExpectedNetworksFrom(step, i + 1, expected_networks, actual_networks)

analyze_network_drift(expected_networks, actual_networks) ==
    UnexpectedFrom(ExpectedNetworksFrom(NoDrift, 1, expected_networks, actual_networks),
                   1, expected_networks, actual_networks,
                   "unexpected_network", "low")

(***************************************************************************)
(* DriftDetector.analyze_volume_drift                                      *)
(***************************************************************************)

\* were the expected driver of a volume compared even when it is empty
RECURSIVE ExpectedVolumesFrom_NoGuard(_, _, _, _)
ExpectedVolumesFrom_NoGuard(acc, i, expected_volumes, actual_volumes) ==
    IF i > Len(expected_volumes) THEN acc
    ELSE LET expected_name == expected_volumes[i].name
             expected_config == expected_volumes[i].cfg
             actual_config == Lookup(actual_volumes, expected_name)
             expected_driver == Get(expected_config, "driver", "")
             actual_driver == Get(actual_config, "driver", "")
             step == IF ~HasKey(actual_volumes, expected_name)
                     THEN Emit(acc, TRUE, Finding("missing_volume", "medium", expected_name))
                     ELSE Emit(acc,
                               expected_driver # actual_driver,
                               Finding("volume_driver_drift", "low", expected_name))
         IN  ExpectedVolumesFrom_NoGuard(step, i + 1, expected_volumes, actual_volumes)

\* the loop over expected_volumes.items(), entries i..Len
RECURSIVE ExpectedVolumesFrom(_, _, _, _)
ExpectedVolumesFrom(acc, i, expected_volumes, actual_volumes) ==
    IF i > Len(expected_volumes) THEN acc
    ELSE LET expected_name == expected_volumes[i].name
             expected_config == expected_volumes[i].cfg
             actual_config == Lookup(actual_volumes, expected_name)
             expected_driver == Get(expected_config, "driver", "")
             actual_driver == Get(actual_config, "driver", "")
             step == IF ~HasKey(actual_volumes, expected_name)
                     THEN Emit(acc, TRUE, Finding("missing_volume", "medium", expected_name))
                     ELSE Emit(acc,
                               expected_driver # "" /\ expected_driver # actual_driver,
                               Finding("volume_driver_drift", "low", expected_name))
         IN  ExpectedVolumesFrom(step, i + 1, expected_volumes, actual_volumes)

analyze_volume_drift(expected_volumes, actual_volumes) ==
    UnexpectedFrom(ExpectedVolumesFrom(NoDrift, 1, expected_volumes, actual_volumes),
                   1, expected_volumes, actual_volumes,
                   "unexpected_volume", "low")

(***************************************************************************)
(* DriftDetector.analyze_drift                                             *)
(***************************************************************************)

\* Extend that assigns the kind's flag instead of raising the overall flag
Extend_AssignFlag(acc, sub) ==
    [detected |-> sub.detected, details |-> acc.details \o sub.details]

\* if drift_detected_<kind>: drift_detected = True; drift_details.extend(<kind>_drift)
Extend(acc, sub) ==
    IF sub.detected
    THEN [detected |-> TRUE, details |-> acc.details \o sub.details]
    ELSE acc

\* were the snapshots never tested for absence
Falsy_Never(state) == FALSE

\* `not state`: None and the empty dict are falsy
Falsy(state) == state = None \/ state = EmptyDict

\* were the volumes analysed first and the containers last
analyze_drift_VolumesFirst(tf_state, dk_state) ==
    IF Falsy(tf_state) \/ Falsy(dk_state) THEN NoDrift
    ELSE LET expected_infrastructure == Get(tf_state, "expected_infrastructure", EmptyDict)
             actual_infrastructure == Get(dk_state, "actual_infrastructure", EmptyDict)
             c == analyze_container_drift(Get(expected_infrastructure, "containers", <<>>),
                                          Get(actual_infrastructure, "containers", <<>>))
             n == analyze_network_drift(Get(expected_infrastructure, "networks", <<>>),
                                        Get(actual_infrastructure, "networks", <<>>))
             v == analyze_volume_drift(Get(expected_infrastructure, "volumes", <<>>),
                                       Get(actual_infrastructure, "volumes", <<>>))
         IN  Extend(Extend(Extend(NoDrift, v), n), c)

analyze_drift(tf_state, dk_state) ==
    IF Falsy(tf_state) \/ Falsy(dk_state) THEN NoDrift
    ELSE LET expected_infrastructure == Get(tf_state, "expected_infrastructure", EmptyDict)
             actual_infrastructure == Get(dk_state, "actual_infrastructure", EmptyDict)
             c == analyze_container_drift(Get(expected_infrastructure, "containers", <<>>),
                                          Get(actual_infrastructure, "containers", <<>>))
             n == analyze_network_drift(Get(expected_infrastructure, "networks", <<>>),
                                        Get(actual_infrastructure, "networks", <<>>))
             v == analyze_volume_drift(Get(expected_infrastructure, "volumes", <<>>),
                                       Get(actual_infrastructure, "volumes", <<>>))
         IN  Extend(Extend(Extend(NoDrift, c), n), v)

(***************************************************************************)
(* Time and text                                                           *)
(***************************************************************************)

\* A clock reading t counts half seconds. datetime.isoformat() prints the
\* fixed-width fields down to the second and appends the fraction only when it
\* is not zero, so the text is <<seconds>> or <<seconds, fraction>>.
isoformat(t) == IF t % 2 = 0 THEN <<t \div 2>> ELSE <<t \div 2, 1>>

\* SQLite's TEXT comparison a < b (memcmp, a proper prefix sorts first)
RECURSIVE TextLess(_, _)
TextLess(a, b) ==
    IF b = <<>> THEN FALSE
    ELSE IF a = <<>> THEN TRUE
    ELSE IF Head(a) # Head(b) THEN Head(a) < Head(b)
    ELSE TextLess(Tail(a), Tail(b))

\* a >= read as a >
TextLeq_Strict(a, b) == TextLess(a, b)

\* SQLite's TEXT comparison a <= b
TextLeq(a, b) == a = b \/ TextLess(a, b)

\* str(n) for a non-negative int
RECURSIVE str(_)
str(n) ==
    LET digit == <<"0", "1", "2", "3", "4", "5", "6", "7", "8", "9">>[(n % 10) + 1]
    IN  IF n < 10 THEN <<digit>> ELSE str(n \div 10) \o <<digit>>

(***************************************************************************)
(* DriftDetector.generate_drift_report                                     *)
(***************************************************************************)

\* CountSeverity that counts the findings at or above the severity
CountSeverity_AtLeast(details, sev) ==
    Len(SelectSeq(details, LAMBDA d :
        Get(d, "severity", NoneStr) \in (IF sev = "high" THEN {"high"}
                                         ELSE IF sev = "medium" THEN {"high", "medium"}
                                         ELSE {"high", "medium", "low"})))

\* len([d for d in drift_details if d.get('severity') == sev])
CountSeverity(details, sev) ==
    Len(SelectSeq(details, LAMBDA d : Get(d, "severity", NoneStr) = sev))

\* len([c for c in containers.values() if c.get('running', False)])
CountRunning(containers) ==
    Len(SelectSeq(containers, LAMBDA e : Get(e.cfg, "running", FALSE)))

generate_drift_report(detected, details, tf_state, dk_state, utcnow, environment) ==
    LET expected_infra == IF Falsy(tf_state) THEN EmptyDict
                          ELSE Get(tf_state, "expected_infrastructure", EmptyDict)
        actual_infra == IF Falsy(dk_state) THEN EmptyDict
                        ELSE Get(dk_state, "actual_infrastructure", EmptyDict)
    IN  [timestamp |-> isoformat(utcnow),
         environment |-> environment,
         drift_detected |-> detected,
         summary |-> [total_issues |-> Len(details),
                      high_severity |-> CountSeverity(details, "high"),
                      medium_severity |-> CountSeverity(details, "medium"),
                      low_severity |-> CountSeverity(details, "low")],
         drift_details |-> details,
         infrastructure_state |->
            [expected |-> [containers |-> Len(Get(expected_infra, "containers", <<>>)),
                           networks |-> Len(Get(expected_infra, "networks", <<>>)),
                           volumes |-> Len(Get(expected_infra, "volumes", <<>>)),
                           images |-> Len(Get(expected_infra, "images", <<>>))],
             actual |-> [containers |-> Len(Get(actual_infra, "containers", <<>>)),
                         containers_running |-> CountRunning(Get(actual_infra, "containers", <<>>)),
                         networks |-> Len(Get(actual_infra, "networks", <<>>)),
                         volumes |-> Len(Get(actual_infra, "volumes", <<>>))]],
         raw_data |-> [terraform_state_available |-> tf_state # None,
                       docker_state_available |-> dk_state # None]]

(***************************************************************************)
(* The snapshots the collectors may hand to the engine                     *)
(***************************************************************************)

Entry(n, d) == [name |-> n, cfg |-> ("name" :> n) @@ d]

\* container descriptors: as extract_expected_infrastructure writes them (status,
\* restart, no running / restart_policy / health_status), as get_docker_state
\* writes them (running, restart_policy, health_status), and descriptors
\* carrying both sets of keys
ContainerDescriptors ==
    { [image |-> <<"n", "g", ":", "1">>, ports |-> <<80>>, restart |-> "always",
       status |-> "running"],
      [image |-> <<"n", "g">>, ports |-> <<>>, restart |-> "", status |-> "created"],
      [image |-> <<"n", "g", ":", "2">>, status |-> "running", running |-> TRUE,
       ports |-> <<80>>, restart_policy |-> [Name |-> "always"], health_status |-> "healthy"],
      [image |-> <<"n", "g">>, status |-> "running", running |-> TRUE,
       ports |-> <<>>, restart_policy |-> [Name |-> "no"], health_status |-> "unhealthy"],
      [image |-> <<"d", "b">>, status |-> "exited", running |-> FALSE,
       ports |-> <<80, 443>>, restart_policy |-> EmptyDict, health_status |-> "none"],
      [image |-> <<"x", "n", "g">>, status |-> "exited", running |-> FALSE,
       ports |-> <<>>, restart_policy |-> [Name |-> "always"], health_status |-> "starting"],
      [image |-> <<"n", "g", ":", "1">>, ports |-> <<80>>, restart |-> "always",
       status |-> "running", running |-> TRUE, restart_policy |-> [Name |-> "always"],
       health_status |-> "healthy"],
      [image |-> <<>>, ports |-> <<>>, restart |-> "no", status |-> "created",
       running |-> FALSE],
      [image |-> <<"n", "g", ":", "1">>, status |-> "exited", running |-> FALSE,
       ports |-> <<80>>, restart_policy |-> [Name |-> "always"], health_status |-> "none"],
      [status |-> "running", running |-> TRUE],
      EmptyDict }

DbDescriptor == [image |-> <<"d", "b">>, ports |-> <<>>, restart |-> "", status |-> "created"]

ContainerPartitions ==
    {<<>>, <<Entry("db", DbDescriptor)>>}
      \cup {<<Entry("web", d)>> : d \in ContainerDescriptors}
      \cup {<<Entry("web", d), Entry("db", DbDescriptor)>> : d \in ContainerDescriptors}
      \cup {<<Entry("db", DbDescriptor), Entry("web", d)>> : d \in ContainerDescriptors}

NetworkDescriptors ==
    { [driver |-> "bridge", subnet |-> "10.0.0.0/24"],
      [driver |-> "host", subnet |-> "10.0.0.0/24"],
      [driver |-> "host", subnet |-> ""],
      [driver |-> "", subnet |-> "10.0.1.0/24"] }

NetworkPartitions == {<<>>} \cup {<<Entry("net1", d)>> : d \in NetworkDescriptors}

VolumeDescriptors == { [driver |-> "local"], [driver |-> ""] }

VolumePartitions == {<<>>} \cup {<<Entry("v1", d)>> : d \in VolumeDescriptors}

Infrastructures ==
    { [containers |-> c, networks |-> n, volumes |-> v, images |-> <<>>] :
        c \in ContainerPartitions, n \in NetworkPartitions, v \in VolumePartitions }

\* get_terraform_state: None on failure, else the extracted expected infrastructure
TerraformStates == {None} \cup {[expected_infrastructure |-> x] : x \in Infrastructures}

\* get_docker_state: None on failure, else the inspected actual infrastructure
DockerStates == {None} \cup {[actual_infrastructure |-> x] : x \in Infrastructures}

(***************************************************************************)
(* The report store: SQLite tables and the values Python hands to them     *)
(***************************************************************************)

\* length of timedelta(days=1) in seconds, in the model's scale
DaySeconds == 1

\* timedelta(days=days) in clock readings (half seconds)
timedelta(days) == days * 2 * DaySeconds

\* a Python bool bound to a BOOLEAN column is stored as the integer 1 or 0
SqlBool(b) == IF b THEN 1 ELSE 0

JsonBool(b) == IF b THEN "true" ELSE "false"
PyBool(t) == t = "true"

\* json.dumps(report): the document keeps the structure of the dict; True/False
\* are written as the literals true/false
json_dumps(r) ==
    [text |-> [k \in DOMAIN r |->
        IF k = "drift_detected" THEN JsonBool(r[k])
        ELSE IF k = "raw_data" THEN [j \in DOMAIN r[k] |-> JsonBool(r[k][j])]
        ELSE r[k]]]

\* json.loads(text)
json_loads(doc) ==
    [k \in DOMAIN doc.text |->
        IF k = "drift_detected" THEN PyBool(doc.text[k])
        ELSE IF k = "raw_data" THEN [j \in DOMAIN doc.text[k] |-> PyBool(doc.text[k][j])]
        ELSE doc.text[k]]

\* `if environment:`: None and '' switch the filter off
Truthy(environment) == environment \notin {NoneStr, ""}

\* `if start_date:` / `if end_date:`: None and '' (both <<>> here) switch the filter off
DateGiven(date) == date # <<>>

\* the database right after init_database on a new file
EmptyDatabase ==
    [drift_reports |-> {}, drift_details |-> {}, infrastructure_state |-> {},
     sqlite_sequence |-> [drift_reports |-> 0, drift_details |-> 0, infrastructure_state |-> 0]]

\* NextRowId of a plain INTEGER PRIMARY KEY: one more than the largest id now in the table
NextRowId_MaxPlusOne(d, table) ==
    IF d[table] = {} THEN 1
    ELSE (CHOOSE x \in {r.id : r \in d[table]} : \A y \in {r.id : r \in d[table]} : y <= x) + 1

\* INTEGER PRIMARY KEY AUTOINCREMENT: one more than the largest id the table ever held
NextRowId(d, table) == d.sqlite_sequence[table] + 1

\* all orders of the rows of S
RECURSIVE Orders(_)
Orders(S) == IF S = {} THEN {<<>>}
             ELSE UNION {{<<x>> \o o : o \in Orders(S \ {x})} : x \in S}

\* OrderByTimestampDesc with the direction reversed (ORDER BY timestamp ASC)
OrderByTimestampDesc_Asc(rows) ==
    {o \in Orders(rows) :
        \A i, j \in 1..Len(o) : i < j => ~TextLess(o[j].timestamp, o[i].timestamp)}

\* ORDER BY timestamp DESC: every order SQLite may return; rows with equal
\* timestamps come in an order the query does not determine
OrderByTimestampDesc(rows) ==
    {o \in Orders(rows) :
        \A i, j \in 1..Len(o) : i < j => ~TextLess(o[i].timestamp, o[j].timestamp)}

\* LIMIT n (a negative n means no limit)
Limit(o, n) == IF n < 0 \/ n >= Len(o) THEN o ELSE SubSeq(o, 1, n)

\* the keys of a dict in insertion order, for the dicts generate_drift_report builds
ItemKeys(d) ==
    SelectSeq(<<"containers", "containers_running", "networks", "volumes", "images">>,
              LAMBDA k : k \in DOMAIN d)

(***************************************************************************)
(* DriftDatabase.store_report: the rows it inserts                         *)
(***************************************************************************)

ReportRow(d, rep, clock) ==
    LET summary == Get(rep, "summary", EmptyDict)
    IN  [id |-> NextRowId(d, "drift_reports"),
         timestamp |-> Get(rep, "timestamp", isoformat(clock)),
         environment |-> Get(rep, "environment", "unknown"),
         drift_detected |-> SqlBool(Get(rep, "drift_detected", FALSE)),
         total_issues |-> Get(summary, "total_issues", 0),
         high_severity |-> Get(summary, "high_severity", 0),
         medium_severity |-> Get(summary, "medium_severity", 0),
         low_severity |-> Get(summary, "low_severity", 0),
         report_data |-> json_dumps(rep)]

\* were the last finding of a report left out of drift_details
DetailRows_DropLast(d, rep, report_id) ==
    LET details == Get(rep, "drift_details", <<>>)
    IN  {[id |-> d.sqlite_sequence.drift_details + i,
          report_id |-> report_id,
          drift_type |-> Get(details[i], "type", "unknown"),
          severity |-> Get(details[i], "severity", "unknown"),
          resource |-> Get(details[i], "resource", "")] : i \in 1..(Len(details) - 1)}

\* drift_database.py 104-119: one drift_details row per finding of the report
DetailRows(d, rep, report_id) ==
    LET details == Get(rep, "drift_details", <<>>)
    IN  {[id |-> d.sqlite_sequence.drift_details + i,
          report_id |-> report_id,
          drift_type |-> Get(details[i], "type", "unknown"),
          severity |-> Get(details[i], "severity", "unknown"),
          resource |-> Get(details[i], "resource", "")] : i \in 1..Len(details)}

InfraRows(d, rep, report_id, clock) ==
    LET infra_state == Get(rep, "infrastructure_state", EmptyDict)
        timestamp == Get(rep, "timestamp", isoformat(clock))
        expected == Get(infra_state, "expected", EmptyDict)
        actual == Get(infra_state, "actual", EmptyDict)
        ek == ItemKeys(expected)
        ak == ItemKeys(actual)
        base == d.sqlite_sequence.infrastructure_state
    IN  {[id |-> base + i,
          report_id |-> report_id,
          resource_type |-> <<"expected", ek[i]>>,
          resource_name |-> ek[i],
          expected_state |-> str(expected[ek[i]]),
          actual_state |-> <<>>,
          state_timestamp |-> timestamp] : i \in 1..Len(ek)}
        \cup
        {[id |-> base + Len(ek) + i,
          report_id |-> report_id,
          resource_type |-> <<"actual", ak[i]>>,
          resource_name |-> ak[i],
          expected_state |-> <<>>,
          actual_state |-> str(actual[ak[i]]),
          state_timestamp |-> timestamp] : i \in 1..Len(ak)}

\* the database after the whole transaction of store_report committed
store_report(d, rep, clock) ==
    LET row == ReportRow(d, rep, clock)
        details == DetailRows(d, rep, row.id)
        infra == InfraRows(d, rep, row.id, clock)
    IN  [drift_reports |-> d.drift_reports \cup {row},
         drift_details |-> d.drift_details \cup details,
         infrastructure_state |-> d.infrastructure_state \cup infra,
         sqlite_sequence |->
            [drift_reports |-> row.id,
             drift_details |-> d.sqlite_sequence.drift_details + Cardinality(details),
             infrastructure_state |->
                d.sqlite_sequence.infrastructure_state + Cardinality(infra)]]

(***************************************************************************)
(* DriftDatabase read operations. Each yields the set of results the       *)
(* query may return (one result unless equal timestamps leave the order    *)
(* open) or the exception it raises.                                       *)
(***************************************************************************)

\* report = json.loads(row['report_data']); report['id'] = row['id']
LoadReport(row) == ("id" :> row.id) @@ json_loads(row.report_data)

\* were the environment never added to the WHERE clause
EnvRows_NoFilter(rows, environment) == rows

\* WHERE 1=1 [AND environment = ?]
EnvRows(rows, environment) ==
    {r \in rows : Truthy(environment) => r.environment = environment}

get_latest_report(d, environment) ==
    LET rows == EnvRows(d.drift_reports, environment)
        first == {Limit(o, 1) : o \in OrderByTimestampDesc(rows)}
    IN  {IF o = <<>> THEN None ELSE LoadReport(o[1]) : o \in first}

get_reports(d, environment, limit, start_date, end_date) ==
    LET rows == {r \in EnvRows(d.drift_reports, environment) :
                    /\ DateGiven(start_date) => TextLeq(start_date, r.timestamp)
                    /\ DateGiven(end_date) => TextLeq(r.timestamp, end_date)}
    IN  {[i \in 1..Len(Limit(o, limit)) |-> LoadReport(o[i])] :
            o \in OrderByTimestampDesc(rows)}

\* sum of f over a set of rows
RECURSIVE SumOver(_, _)
SumOver(rows, col) ==
    IF rows = {} THEN 0
    ELSE LET r == CHOOSE x \in rows : TRUE IN r[col] + SumOver(rows \ {r}, col)

MaxOf(S) == CHOOSE x \in S : \A y \in S : y <= x

RECURSIVE Gcd(_, _)
Gcd(a, b) == IF b = 0 THEN a ELSE Gcd(b, a % b)

\* the number n / m (m > 0) in lowest terms
Ratio(n, m) == LET g == Gcd(n, m) IN [num |-> n \div g, den |-> m \div g]

\* SQL values an aggregate returns: NULL is <<>>, a number v is <<v>>.
\* COUNT is 0 on no rows, while SUM, AVG and MAX are NULL on no rows
Null == <<>>
SqlCount(rows) == Cardinality(rows)
SqlSum(rows, col) == IF rows = {} THEN Null ELSE <<SumOver(rows, col)>>
SqlAvg(rows, col) == IF rows = {} THEN Null ELSE <<Ratio(SumOver(rows, col), Cardinality(rows))>>
SqlMax(rows, col) == IF rows = {} THEN Null ELSE <<MaxOf({r[col] : r \in rows})>>

\* SUM(CASE WHEN drift_detected = 1 THEN 1 ELSE 0 END)
SqlSumDrift(rows) ==
    IF rows = {} THEN Null ELSE <<Cardinality({r \in rows : r.drift_detected = 1})>>

\* `x or 0` on a fetched column: None (NULL) gives 0
OrZero(x) == IF x = Null THEN 0 ELSE x[1]

\* DATE(timestamp): the calendar day of an ISO text
DateOf(timestamp) == timestamp[1] \div DaySeconds

\* the rows of the statistics window
WindowRows(d, environment, days, clock) ==
    LET start_date == isoformat(clock - timedelta(days))
    IN  {r \in d.drift_reports :
            /\ TextLeq(start_date, r.timestamp)
            /\ Truthy(environment) => r.environment = environment}

\* GROUP BY DATE(timestamp) ORDER BY report_date
TrendRows(rows) ==
    LET dates == {DateOf(r.timestamp) : r \in rows}
        group(date) == {r \in rows : DateOf(r.timestamp) = date}
        RECURSIVE asc(_)
        asc(ds) == IF ds = {} THEN <<>>
                   ELSE LET m == CHOOSE x \in ds : \A y \in ds : x <= y
                        IN  <<[report_date |-> m,
                               reports_count |-> SqlCount(group(m)),
                               drift_count |-> SqlSumDrift(group(m))[1],
                               avg_issues |-> SqlAvg(group(m), "total_issues")[1]]>>
                            \o asc(ds \ {m})
    IN  asc(dates)

TypeError == [raised |-> "TypeError"]

get_drift_statistics(d, environment, days, clock) ==
    LET rows == WindowRows(d, environment, days, clock)
        total_reports == SqlCount(rows)
        drift_reports == SqlSumDrift(rows)
        max1 == IF total_reports > 1 THEN total_reports ELSE 1
    IN  IF drift_reports = Null
        THEN TypeError    \* row['drift_reports'] / max(...) is None / int
        ELSE [summary |->
                [total_reports |-> total_reports,
                 drift_reports |-> OrZero(drift_reports),
                 drift_percentage |-> Ratio(drift_reports[1] * 100, max1),
                 avg_issues |-> OrZero(SqlAvg(rows, "total_issues")),
                 max_issues |-> OrZero(SqlMax(rows, "total_issues")),
                 total_high_severity |-> OrZero(SqlSum(rows, "high_severity")),
                 total_medium_severity |-> OrZero(SqlSum(rows, "medium_severity")),
                 total_low_severity |-> OrZero(SqlSum(rows, "low_severity"))],
              trend |-> TrendRows(rows),
              days |-> days,
              start_date |-> isoformat(clock - timedelta(days))]

\* ORDER BY state_timestamp: rows of equal timestamp come in an order the query
\* does not determine; SQLite keeps the rows of one report together
OrderByStateTimestamp(d, rows) ==
    LET ids == {r.report_id : r \in rows}
        ts(id) == (CHOOSE r \in rows : r.report_id = id).state_timestamp
        reportOrders == {o \in Orders(ids) :
            \A i, j \in 1..Len(o) : i < j => ~TextLess(ts(o[j]), ts(o[i]))}
        RECURSIVE byId(_)
        byId(S) == IF S = {} THEN <<>>
                   ELSE LET m == CHOOSE x \in S : \A y \in S : x.id <= y.id
                        IN  <<m>> \o byId(S \ {m})
        RECURSIVE concat(_)
        concat(o) == IF o = <<>> THEN <<>>
                     ELSE byId({r \in rows : r.report_id = Head(o)}) \o concat(Tail(o))
    IN  {concat(o) : o \in reportOrders}

get_infrastructure_trends(d, environment, days, clock) ==
    LET start_date == isoformat(clock - timedelta(days))
        rows == {r \in d.infrastructure_state :
                    /\ TextLeq(start_date, r.state_timestamp)
                    /\ Truthy(environment) =>
                          r.report_id \in {x.id : x \in EnvRows(d.drift_reports, environment)}}
        entry(r) == [timestamp |-> r.state_timestamp, resource_name |-> r.resource_name,
                     expected |-> r.expected_state, actual |-> r.actual_state]
        trends(o) == [t \in {o[i].resource_type : i \in 1..Len(o)} |->
                        LET sel == SelectSeq(o, LAMBDA r : r.resource_type = t)
                        IN  [i \in 1..Len(sel) |-> entry(sel[i])]]
    IN  {trends(o) : o \in OrderByStateTimestamp(d, rows)}

(***************************************************************************)
(* DriftDatabase.cleanup_old_reports                                       *)
(***************************************************************************)

\* OldReportIds with the comparison timestamp <= cutoff_date
OldReportIds_Inclusive(d, days, clock) ==
    LET cutoff_date == isoformat(clock - timedelta(days))
    IN  {r.id : r \in {x \in d.drift_reports : TextLeq(x.timestamp, cutoff_date)}}

\* SELECT id FROM drift_reports WHERE timestamp < cutoff_date
OldReportIds(d, days, clock) ==
    LET cutoff_date == isoformat(clock - timedelta(days))
    IN  {r.id : r \in {x \in d.drift_reports : TextLess(x.timestamp, cutoff_date)}}

\* the three DELETE ... IN (report_ids) statements
DeleteReports(d, report_ids) ==
    [d EXCEPT !.drift_details = {r \in @ : r.report_id \notin report_ids},
              !.infrastructure_state = {r \in @ : r.report_id \notin report_ids},
              !.drift_reports = {r \in @ : r.id \notin report_ids}]

cleanup_old_reports(d, days, clock) ==
    LET report_ids == OldReportIds(d, days, clock)
    IN  IF report_ids = {} THEN [db |-> d, ret |-> 0]
        ELSE [db |-> DeleteReports(d, report_ids), ret |-> Cardinality(report_ids)]

(***************************************************************************)
(* Bounds and inputs of the store model                                    *)
(***************************************************************************)

MaxTime == 2       \* clock readings and report timestamps range over 0..MaxTime
MaxDays == 1       \* the days argument ranges over 0..MaxDays
MaxReports == 2    \* store_report is called at most MaxReports times

Environments == {"dev", "prod"}

\* the environment argument of a read: None or a configured environment
EnvironmentArgs == {NoneStr} \cup Environments

\* two analysis runs whose reports get stored: nothing deployed and nothing
\* expected; a stopped web container next to an undeclared volume
InSync == [expected_infrastructure |->
              [containers |-> <<>>, networks |-> <<>>, volumes |-> <<>>, images |-> <<>>]]
InSyncActual == [actual_infrastructure |->
              [containers |-> <<>>, networks |-> <<>>, volumes |-> <<>>, images |-> <<>>]]
Drifted == [expected_infrastructure |->
              [containers |-> <<Entry("web", [image |-> <<"n", "g", ":", "1">>, ports |-> <<80>>,
                                             restart |-> "always", status |-> "running"])>>,
               networks |-> <<>>, volumes |-> <<>>, images |-> <<>>]]
DriftedActual == [actual_infrastructure |->
              [containers |-> <<Entry("web", [image |-> <<"n", "g", ":", "1">>,
                                             status |-> "exited", running |-> FALSE,
                                             ports |-> <<80>>,
                                             restart_policy |-> [Name |-> "no"],
                                             health_status |-> "none"])>>,
               networks |-> <<>>,
               volumes |-> <<Entry("v1", [driver |-> "local"])>>, images |-> <<>>]]

Runs == {<<InSync, InSyncActual>>, <<Drifted, DriftedActual>>}

\* what run_drift_detection builds from a run at clock reading t
BuiltReport(run, t, environment) ==
    LET a == analyze_drift(run[1], run[2])
    IN  generate_drift_report(a.detected, a.details, run[1], run[2], t, environment)

\* the reports handed to store_report: reports of analysis runs, stamped with
\* the current time by the detector or back-dated by the scenario scripts
StoreInputs ==
    {BuiltReport(run, t, e) : run \in Runs, t \in 0..MaxTime, e \in Environments}

NoOp == [op |-> "none"]

\* the second stores are new files too
TwinIdle == twin = [e \in Environments |-> EmptyDatabase]

(***************************************************************************)
(* Specification Spec: one caller at a time uses the store                 *)
(***************************************************************************)

\* load_config found no file: self.config = {}
NoConfig == [always_notify |-> FALSE, webhook_url |-> FALSE]

\* nothing saved, sent, logged or returned yet
NoOutcome == [report_file |-> NoneStr, store |-> "none", report_id |-> 0,
              notification |-> None, log |-> "none", ret |-> None, exit_code |-> -1]

DetectorIdle ==
    /\ terraform_state = None
    /\ docker_state = None
    /\ run_pc = "idle"
    /\ drift_detected = FALSE
    /\ drift_details = <<>>
    /\ report = None
    /\ config = NoConfig
    /\ out = NoOutcome

ConnectionsIdle ==
    /\ conn = <<>>
    /\ wlock = NoneStr
    /\ returned = <<>>

Init ==
    /\ DetectorIdle
    /\ ConnectionsIdle
    /\ db = EmptyDatabase
    /\ now \in 0..MaxTime
    /\ last = NoOp
    /\ TwinIdle

\* time passes; `last` is the operation completed at the current clock reading
Tick ==
    /\ now < MaxTime
    /\ now' = now + 1
    /\ last' = NoOp
    /\ UNCHANGED <<db, detector_vars, conc_vars, twin>>

StoreReport ==
    \E rep \in StoreInputs :
        /\ db.sqlite_sequence.drift_reports < MaxReports
        /\ db' = store_report(db, rep, now)
        /\ last' = [op |-> "store_report", report |-> rep, clock |-> now,
                    ret |-> db'.sqlite_sequence.drift_reports]
        /\ UNCHANGED <<now, detector_vars, conc_vars, twin>>

GetLatestReport ==
    \E environment \in EnvironmentArgs :
        \E ret \in get_latest_report(db, environment) :
            /\ last' = [op |-> "get_latest_report", environment |-> environment,
                        clock |-> now, ret |-> ret]
            /\ UNCHANGED <<db, now, detector_vars, conc_vars, twin>>

GetReports ==
    \E environment \in {NoneStr, "dev"}, limit \in {-1, 0, 1, 10},
       start_date \in {<<>>, isoformat(1)}, end_date \in {<<>>, isoformat(1)} :
        \E ret \in get_reports(db, environment, limit, start_date, end_date) :
            /\ last' = [op |-> "get_reports", environment |-> environment, limit |-> limit,
                        start_date |-> start_date, end_date |-> end_date,
                        clock |-> now, ret |-> ret]
            /\ UNCHANGED <<db, now, detector_vars, conc_vars, twin>>

GetDriftStatistics ==
    \E environment \in EnvironmentArgs, days \in 0..MaxDays :
        /\ last' = [op |-> "get_drift_statistics", environment |-> environment,
                    days |-> days, clock |-> now,
                    ret |-> get_drift_statistics(db, environment, days, now)]
        /\ UNCHANGED <<db, now, detector_vars, conc_vars, twin>>

GetInfrastructureTrends ==
    \E environment \in EnvironmentArgs, days \in 0..MaxDays :
        \E ret \in get_infrastructure_trends(db, environment, days, now) :
            /\ last' = [op |-> "get_infrastructure_trends", environment |-> environment,
                        days |-> days, clock |-> now, ret |-> ret]
            /\ UNCHANGED <<db, now, detector_vars, conc_vars, twin>>

CleanupOldReports ==
    \E days \in 0..MaxDays :
        LET res == cleanup_old_reports(db, days, now)
        IN  /\ db' = res.db
            /\ last' = [op |-> "cleanup_old_reports", days |-> days, clock |-> now,
                        ret |-> res.ret]
            /\ UNCHANGED <<now, detector_vars, conc_vars, twin>>

Next ==
    \/ Tick
    \/ StoreReport
    \/ GetLatestReport
    \/ GetReports
    \/ GetDriftStatistics
    \/ GetInfrastructureTrends
    \/ CleanupOldReports

Spec == Init /\ [][Next]_vars

(***************************************************************************)
(* Specification SpecAnalyze: run_drift_detection on every pair of         *)
(* collector results                                                       *)
(***************************************************************************)

StoreIdle ==
    /\ db = EmptyDatabase
    /\ now = 0
    /\ last = NoOp
    /\ TwinIdle

InitAnalyze ==
    /\ terraform_state \in TerraformStates
    /\ docker_state \in DockerStates
    /\ run_pc = "collected"
    /\ drift_detected = FALSE
    /\ drift_details = <<>>
    /\ report = None
    /\ config = NoConfig
    /\ out = NoOutcome
    /\ StoreIdle
    /\ ConnectionsIdle

\* drift-detector.py 747: drift_detected, drift_details = self.analyze_drift(...)
Analyze ==
    /\ run_pc = "collected"
    /\ LET res == analyze_drift(terraform_state, docker_state)
       IN  /\ drift_detected' = res.detected
           /\ drift_details' = res.details
    /\ run_pc' = "analyzed"
    /\ UNCHANGED <<terraform_state, docker_state, report, config, out, store_vars, conc_vars, twin>>

\* drift-detector.py 750: report = self.generate_drift_report(...)
GenerateReport ==
    /\ run_pc = "analyzed"
    /\ report' = generate_drift_report(drift_detected, drift_details,
                                       terraform_state, docker_state, now, "dev")
    /\ run_pc' = "built"
    /\ UNCHANGED <<terraform_state, docker_state, drift_detected, drift_details,
                   config, out, store_vars, conc_vars, twin>>

NextAnalyze == Analyze \/ GenerateReport

SpecAnalyze == InitAnalyze /\ [][NextAnalyze]_vars

(***************************************************************************)
(* Properties of the analysis engine and the report builder (SpecAnalyze)  *)
(***************************************************************************)

BothAvailable == ~Falsy(terraform_state) /\ ~Falsy(docker_state)

ExpectedInfra == terraform_state.expected_infrastructure
ActualInfra == docker_state.actual_infrastructure

\* the indices of the findings of a list that satisfy a test
Hits(details, Test(_)) == {i \in 1..Len(details) : Test(details[i])}

ContainerFindingTypes ==
    {"missing_container", "container_status_drift", "image_drift", "port_count_drift",
     "restart_policy_drift", "health_drift", "unexpected_container"}

C2_MissingContainerOnly ==
    (run_pc \in {"analyzed", "built"} /\ BothAvailable) =>
        \A i \in 1..Len(ExpectedInfra.containers) :
            LET n == ExpectedInfra.containers[i].name
                own == Hits(drift_details,
                            LAMBDA f : f.resource = n /\ f.type \in ContainerFindingTypes)
            IN  ~HasKey(ActualInfra.containers, n) =>
                    /\ Cardinality(own) = 1
                    /\ \A j \in own : /\ drift_details[j].type = "missing_container"
                                      /\ drift_details[j].severity = "high"

\* C2 witness: an analysed run whose expected web container is declared running
\* with a restart policy and is absent from actual, reported as missing_container
C2_Witness ==
    /\ run_pc = "analyzed"
    /\ BothAvailable
    /\ HasKey(ExpectedInfra.containers, "web")
    /\ Lookup(ExpectedInfra.containers, "web")
         = ("name" :> "web") @@ [image |-> <<"n", "g", ":", "1">>, ports |-> <<80>>,
                                 restart |-> "always", status |-> "running"]
    /\ ~HasKey(ActualInfra.containers, "web")
    /\ \E j \in 1..Len(drift_details) :
          drift_details[j] = Finding("missing_container", "high", "web")

\* C3: in a built report the three severity counts of summary equal the number
\* of entries of drift_details with that severity and total_issues equals the
\* length of drift_details.
C3_SummaryMatchesDetails ==
    run_pc = "built" =>
        /\ report.summary.total_issues = Len(report.drift_details)
        /\ report.summary.high_severity
             = Cardinality(Hits(report.drift_details, LAMBDA f : f.severity = "high"))
        /\ report.summary.medium_severity
             = Cardinality(Hits(report.drift_details, LAMBDA f : f.severity = "medium"))
        /\ report.summary.low_severity
             = Cardinality(Hits(report.drift_details, LAMBDA f : f.severity = "low"))

\* C3 witness: a built report with findings of all three severities
C3_Witness ==
    /\ run_pc = "built"
    /\ report.summary.high_severity >= 1
    /\ report.summary.medium_severity >= 2
    /\ report.summary.low_severity >= 1
    /\ report.summary.total_issues >= 5

\* C4: analyze_drift returns drift_detected = true exactly when its finding
\* list is non-empty, and the report built from it carries the same pair.
C4_DetectedIffFindings ==
    /\ run_pc \in {"analyzed", "built"} => (drift_detected <=> drift_details # <<>>)
    /\ run_pc = "built" => (report.drift_detected <=> report.drift_details # <<>>)

\* C4 witness: a built report with drift in the containers only
C4_Witness ==
    /\ run_pc = "built"
    /\ report.drift_detected
    /\ report.drift_details # <<>>
    /\ \A j \in 1..Len(report.drift_details) :
          report.drift_details[j].type \in ContainerFindingTypes

(***************************************************************************)
(* Properties of the report store used by one caller at a time (Spec)      *)
(***************************************************************************)

\* the clock reading an ISO text was printed from
Reading(timestamp) == 2 * timestamp[1] + (IF Len(timestamp) > 1 THEN 1 ELSE 0)

\* the step is a get_latest_report(r.environment) right after store_report(r)
StoreThenLatest ==
    /\ last.op = "store_report"
    /\ last'.op = "get_latest_report"
    /\ last'.environment = last.report.environment

\* C5 as claimed: from any store state, store_report(r) followed by
\* get_latest_report(r.environment) returns r with the id store_report returned.
C5_StoreThenLatestAnyState ==
    [][StoreThenLatest => last'.ret = ("id" :> last.ret) @@ last.report]_vars

\* C5, the part the store does keep: store_report(r) followed by
\* get_latest_report(r.environment) returns r with the id store_report
\* returned when r's timestamp is strictly later than that of every other
\* stored report of that environment. With an equal timestamp the ORDER BY
\* leaves the choice between the two rows open.
C5_StoreThenLatestWhenNewest ==
    [][(/\ StoreThenLatest
        /\ \A row \in db.drift_reports :
              (row.environment = last.report.environment /\ row.id # last.ret)
                 => Reading(row.timestamp) < Reading(last.report.timestamp))
       => last'.ret = ("id" :> last.ret) @@ last.report]_vars

\* C5 witness: get_latest_report returned the report stored last, which is the
\* newest of two reports of its environment and carries findings
C5_Witness ==
    /\ last.op = "get_latest_report"
    /\ last.environment = "dev"
    /\ last.ret # None
    /\ last.ret.id = db.sqlite_sequence.drift_reports
    /\ last.ret.drift_detected
    /\ Len(last.ret.drift_details) > 0
    /\ Cardinality({row \in db.drift_reports : row.environment = "dev"}) = 2
    /\ \A row \in db.drift_reports :
          row.id # last.ret.id => Reading(row.timestamp) < Reading(last.ret.timestamp)

\* C6: a cleanup_old_reports(days) step removes exactly the reports written
\* before the cutoff now - days together with their child rows, keeps every
\* report at or after the cutoff, and returns the number of reports removed; a
\* second call with the same days at the same clock reading returns 0.
C6_CleanupExactlyOld ==
    [][last'.op = "cleanup_old_reports" =>
        LET cutoff == now - timedelta(last'.days)
            kept == {r \in db.drift_reports : Reading(r.timestamp) >= cutoff}
        IN  /\ db'.drift_reports = kept
            /\ db'.drift_details =
                  {r \in db.drift_details : r.report_id \in {k.id : k \in kept}}
            /\ db'.infrastructure_state =
                  {r \in db.infrastructure_state : r.report_id \in {k.id : k \in kept}}
            /\ last'.ret = Cardinality(db.drift_reports \ kept)
            /\ (last.op = "cleanup_old_reports" /\ last.days = last'.days
                  /\ last.clock = last'.clock) => last'.ret = 0]_vars

\* C6 witness: a cleanup removed a report and kept one written exactly at the cutoff
C6_Witness ==
    /\ last.op = "cleanup_old_reports"
    /\ last.ret >= 1
    /\ last.clock = now
    /\ \E r \in db.drift_reports : Reading(r.timestamp) = now - timedelta(last.days)

\* the reports of a statistics window, by clock reading
InWindow(environment, days) ==
    {r \in db.drift_reports :
        /\ Reading(r.timestamp) >= now - timedelta(days)
        /\ environment # NoneStr => r.environment = environment}

\* C7: get_drift_statistics over a window of N reports, D of them with drift,
\* returns drift_percentage = D/N*100 when N >= 1 and 0 when N = 0.
C7_DriftPercentage ==
    last.op = "get_drift_statistics" =>
        LET rows == InWindow(last.environment, last.days)
            N == Cardinality(rows)
            D == Cardinality({r \in rows : json_loads(r.report_data).drift_detected})
        IN  /\ last.ret # TypeError
            /\ N >= 1 => last.ret.summary.drift_percentage.num * N
                           = D * 100 * last.ret.summary.drift_percentage.den
            /\ N = 0 => last.ret.summary.drift_percentage.num = 0

EmptyStore ==
    /\ db.drift_reports = {}
    /\ db.drift_details = {}
    /\ db.infrastructure_state = {}

\* C8: on an empty store every read completes without an error:
\* get_latest_report returns None, get_reports an empty list,
\* get_infrastructure_trends an empty mapping and get_drift_statistics a
\* record with zero counts.
C8_ReadsOnEmptyStore ==
    EmptyStore =>
        /\ last.op = "get_latest_report" => last.ret = None
        /\ last.op = "get_reports" => last.ret = <<>>
        /\ last.op = "get_infrastructure_trends" => last.ret = EmptyDict
        /\ last.op = "get_drift_statistics" =>
              /\ last.ret # TypeError
              /\ last.ret.summary.total_reports = 0
              /\ last.ret.summary.drift_reports = 0
              /\ last.ret.summary.max_issues = 0

(***************************************************************************)
(* Specification SpecConc: callers use the store concurrently. Every call  *)
(* opens its own connection (`with sqlite3.connect(...) as conn`); the     *)
(* first INSERT or DELETE of a connection begins a transaction and takes   *)
(* SQLite's write lock, conn.commit() publishes the transaction, and an    *)
(* exception inside the with block rolls it back. A SELECT reads the       *)
(* committed database.                                                     *)
(***************************************************************************)

MaxCalls == 1      \* each caller makes at most MaxCalls calls

Writers == {"w1", "w2", "w3"}
Cleaner == "gc"
Callers == Writers \cup {Cleaner}

\* the reports the concurrent writers store: both older than the clock reading
ConcInputs == {BuiltReport(<<Drifted, DriftedActual>>, 0, "dev"),
               BuiltReport(<<InSync, InSyncActual>>, 1, "dev")}

IdleConn == [pc |-> "idle", calls |-> 0, txn |-> None, rep |-> None, i |-> 0,
             report_id |-> 0, ids |-> {}]

InitConc ==
    /\ DetectorIdle
    /\ db = EmptyDatabase
    /\ now = MaxTime
    /\ last = NoOp
    /\ TwinIdle
    /\ conn = [p \in Callers |-> IdleConn]
    /\ wlock = NoneStr
    /\ returned = <<>>

\* the row of a set with a given id
RowWithId(rows, id) == CHOOSE r \in rows : r.id = id

CanLock(p) == wlock \in {NoneStr, p}

\* were every statement committed as it runs
AfterStatement_Autocommit(committed, txn) == txn

\* what the other connections see after a statement of an open transaction: the
\* connection is opened with the default isolation level, so the statement
\* stays in the transaction until conn.commit()
AfterStatement(committed, txn) == committed

\* store_report is called: the connection is opened
BeginStore(p) ==
    /\ p \in Writers
    /\ conn[p].pc \in {"idle", "failed"}
    /\ conn[p].calls < MaxCalls
    /\ \E rep \in ConcInputs :
          conn' = [conn EXCEPT ![p] = [IdleConn EXCEPT !.pc = "insert_report",
                                                      !.calls = conn[p].calls + 1,
                                                      !.rep = rep]]
    /\ UNCHANGED <<db, now, last, wlock, returned, detector_vars, twin>>

\* drift_database.py 85-102: INSERT INTO drift_reports; report_id = cursor.lastrowid
InsertReport(p) ==
    /\ conn[p].pc = "insert_report"
    /\ CanLock(p)
    /\ wlock' = p
    /\ LET row == ReportRow(db, conn[p].rep, now)
       IN  conn' = [conn EXCEPT ![p].pc = "insert_details",
                                ![p].i = 1,
                                ![p].report_id = row.id,
                                ![p].txn = [db EXCEPT !.drift_reports = @ \cup {row},
                                                      !.sqlite_sequence.drift_reports = row.id]]
    /\ db' = AfterStatement(db, conn'[p].txn)
    /\ UNCHANGED <<now, last, returned, detector_vars, twin>>

\* drift_database.py 105-119: one INSERT INTO drift_details per finding
InsertDetail(p) ==
    /\ conn[p].pc = "insert_details"
    /\ LET rows == DetailRows(db, conn[p].rep, conn[p].report_id)
           id == db.sqlite_sequence.drift_details + conn[p].i
       IN  IF conn[p].i > Cardinality(rows)
           THEN conn' = [conn EXCEPT ![p].pc = "insert_infra", ![p].i = 1]
           ELSE conn' = [conn EXCEPT
                   ![p].i = @ + 1,
                   ![p].txn = [@ EXCEPT !.drift_details = @ \cup {RowWithId(rows, id)},
                                        !.sqlite_sequence.drift_details = id]]
    /\ db' = AfterStatement(db, conn'[p].txn)
    /\ UNCHANGED <<now, last, wlock, returned, detector_vars, twin>>

\* drift_database.py 121-149: one INSERT INTO infrastructure_state per count
InsertInfra(p) ==
    /\ conn[p].pc = "insert_infra"
    /\ LET rows == InfraRows(db, conn[p].rep, conn[p].report_id, now)
           id == db.sqlite_sequence.infrastructure_state + conn[p].i
       IN  IF conn[p].i > Cardinality(rows)
           THEN conn' = [conn EXCEPT ![p].pc = "commit"]
           ELSE conn' = [conn EXCEPT
                   ![p].i = @ + 1,
                   ![p].txn = [@ EXCEPT !.infrastructure_state = @ \cup {RowWithId(rows, id)},
                                        !.sqlite_sequence.infrastructure_state = id]]
    /\ db' = AfterStatement(db, conn'[p].txn)
    /\ UNCHANGED <<now, last, wlock, returned, detector_vars, twin>>

\* were the commit to replace the stored reports of the environment by the new one
CommitStore_Replace(p) ==
    /\ p \in Writers
    /\ conn[p].pc = "commit"
    /\ LET gone == {r.id : r \in {q \in db.drift_reports :
                                     q.environment = conn[p].rep.environment}}
       IN  db' = [conn[p].txn EXCEPT
                    !.drift_reports = {r \in @ : r.id \notin gone},
                    !.drift_details = {r \in @ : r.report_id \notin gone},
                    !.infrastructure_state = {r \in @ : r.report_id \notin gone}]
    /\ wlock' = NoneStr
    /\ returned' = Append(returned, conn[p].report_id)
    /\ conn' = [conn EXCEPT ![p].pc = "idle", ![p].txn = None]
    /\ UNCHANGED <<now, last, detector_vars, twin>>

\* drift_database.py 151-152: conn.commit(); return report_id
CommitStore(p) ==
    /\ p \in Writers
    /\ conn[p].pc = "commit"
    /\ db' = conn[p].txn
    /\ wlock' = NoneStr
    /\ returned' = Append(returned, conn[p].report_id)
    /\ conn' = [conn EXCEPT ![p].pc = "idle", ![p].txn = None]
    /\ UNCHANGED <<now, last, detector_vars, twin>>

\* cleanup_old_reports is called; drift_database.py 333-340: SELECT id ... and
\* the early return 0
SelectOld(p) ==
    /\ p = Cleaner
    /\ conn[p].pc \in {"idle", "failed"}
    /\ conn[p].calls < MaxCalls
    /\ LET report_ids == OldReportIds(db, 0, now)
       IN  conn' = [conn EXCEPT ![p] =
              [IdleConn EXCEPT !.calls = conn[p].calls + 1,
                               !.ids = report_ids,
                               !.pc = IF report_ids = {} THEN "idle" ELSE "delete_details"]]
    /\ UNCHANGED <<db, now, last, wlock, returned, detector_vars, twin>>

\* drift_database.py 345-347: DELETE FROM drift_details
DeleteDetails(p) ==
    /\ conn[p].pc = "delete_details"
    /\ CanLock(p)
    /\ wlock' = p
    /\ conn' = [conn EXCEPT
          ![p].pc = "delete_infra",
          ![p].txn = [db EXCEPT !.drift_details =
                                   {r \in @ : r.report_id \notin conn[p].ids}]]
    /\ db' = AfterStatement(db, conn'[p].txn)
    /\ UNCHANGED <<now, last, returned, detector_vars, twin>>

\* drift_database.py 349-351: DELETE FROM infrastructure_state
DeleteInfra(p) ==
    /\ conn[p].pc = "delete_infra"
    /\ conn' = [conn EXCEPT
          ![p].pc = "delete_reports",
          ![p].txn = [@ EXCEPT !.infrastructure_state =
                                  {r \in @ : r.report_id \notin conn[p].ids}]]
    /\ db' = AfterStatement(db, conn'[p].txn)
    /\ UNCHANGED <<now, last, wlock, returned, detector_vars, twin>>

\* drift_database.py 353-355: DELETE FROM drift_reports
DeleteReportRows(p) ==
    /\ conn[p].pc = "delete_reports"
    /\ conn' = [conn EXCEPT
          ![p].pc = "commit",
          ![p].txn = [@ EXCEPT !.drift_reports = {r \in @ : r.id \notin conn[p].ids}]]
    /\ db' = AfterStatement(db, conn'[p].txn)
    /\ UNCHANGED <<now, last, wlock, returned, detector_vars, twin>>

\* drift_database.py 357-358: conn.commit(); return len(report_ids)
CommitCleanup(p) ==
    /\ p = Cleaner
    /\ conn[p].pc = "commit"
    /\ db' = conn[p].txn
    /\ wlock' = NoneStr
    /\ conn' = [conn EXCEPT ![p].pc = "idle", ![p].txn = None]
    /\ UNCHANGED <<now, last, returned, detector_vars, twin>>

InCall(p) == conn[p].pc \notin {"idle", "failed"}

\* were the statements run before the exception left in the database
Raise_NoRollback(p) ==
    /\ InCall(p)
    /\ conn' = [conn EXCEPT ![p].pc = "failed", ![p].txn = None]
    /\ wlock' = IF wlock = p THEN NoneStr ELSE wlock
    /\ db' = IF conn[p].txn = None THEN db ELSE conn[p].txn
    /\ UNCHANGED <<now, last, returned, detector_vars, twin>>

\* a statement raises (the database is locked, the disk fails): the with block
\* rolls the transaction back and the exception leaves the call
Raise(p) ==
    /\ InCall(p)
    /\ conn' = [conn EXCEPT ![p].pc = "failed", ![p].txn = None]
    /\ wlock' = IF wlock = p THEN NoneStr ELSE wlock
    /\ UNCHANGED <<db, now, last, returned, detector_vars, twin>>

\* what a reader's SELECTs over the three tables return: per visible report the
\* numbers of its detail and state rows, and the report ids child rows refer to
Seen(d) ==
    [reports |-> {[id |-> r.id,
                   report |-> json_loads(r.report_data),
                   details |-> Cardinality({x \in d.drift_details : x.report_id = r.id}),
                   states |-> Cardinality({x \in d.infrastructure_state : x.report_id = r.id})]
                  : r \in d.drift_reports},
     child_refs |-> {x.report_id : x \in d.drift_details \cup d.infrastructure_state}]

\* a dashboard reads while the calls are in progress
ReaderSelect ==
    /\ last' = [op |-> "select", seen |-> Seen(db)]
    /\ UNCHANGED <<db, now, conn, wlock, returned, detector_vars, twin>>

NextConc ==
    \/ \E p \in Callers :
          \/ BeginStore(p)
          \/ InsertReport(p)
          \/ InsertDetail(p)
          \/ InsertInfra(p)
          \/ CommitStore(p)
          \/ SelectOld(p)
          \/ DeleteDetails(p)
          \/ DeleteInfra(p)
          \/ DeleteReportRows(p)
          \/ CommitCleanup(p)
          \/ Raise(p)
    \/ ReaderSelect

SpecConc == InitConc /\ [][NextConc]_vars

\* the number of infrastructure_state rows store_report writes for a report
StateRowsOf(rep) ==
    Cardinality(DOMAIN rep.infrastructure_state.expected)
    + Cardinality(DOMAIN rep.infrastructure_state.actual)

\* a reader's observation shows every report whole and no rows of a report it
\* does not show
Whole(seen) ==
    /\ \A r \in seen.reports :
          /\ r.details = Len(r.report.drift_details)
          /\ r.states = StateRowsOf(r.report)
    /\ seen.child_refs \subseteq {r.id : r \in seen.reports}

\* C9: store_report is atomic towards concurrent readers: whatever a reader
\* selects, at any moment of any interleaving of stores, cleanups and failures,
\* shows each report either with its drift_reports row and all of its
\* drift_details and infrastructure_state rows or not at all; and a store_report
\* that raises midway changes nothing a reader can see.
C9_StoreIsAtomic ==
    /\ [](Whole(Seen(db)) /\ (last.op = "select" => Whole(last.seen)))
    /\ [][\A p \in Writers :
             (InCall(p) /\ conn'[p].pc = "failed") => Seen(db') = Seen(db)]_vars

\* a reader selected a stored report while one store_report had failed after
\* writing rows and another held rows written but not committed
C9_Witness ==
    /\ last.op = "select"
    /\ last.seen = Seen(db)
    /\ \E p \in Writers :
          /\ conn[p].pc = "failed"
          /\ conn[p].report_id # 0
    /\ \E p \in Writers :
          /\ conn[p].pc = "insert_infra"
          /\ conn[p].txn.drift_details # db.drift_details
    /\ db.drift_reports # {}

\* C10: the ids store_report returns are pairwise distinct and strictly
\* increasing in the order of the insertions, and the id of a deleted report is
\* never given to a later one, in every interleaving of stores and cleanups.
C10_IdsIncreaseNeverReused ==
    /\ \A i, j \in 1..Len(returned) : i < j => returned[i] < returned[j]
    /\ \A r \in db.drift_reports : \E i \in 1..Len(returned) : returned[i] = r.id
    /\ \A p \in Writers :
          conn[p].pc \in {"insert_details", "insert_infra", "commit"} =>
             \A i \in 1..Len(returned) : returned[i] < conn[p].report_id

\* a report was stored after the cleanup deleted an earlier one
C10_Witness ==
    /\ Len(returned) = 2
    /\ returned[1] \notin {r.id : r \in db.drift_reports}
    /\ returned[2] \in {r.id : r \in db.drift_reports}
    /\ conn[Cleaner].calls = 1

\* the child rows of a report
ChildrenOf(d, id) ==
    {x \in d.drift_details \cup d.infrastructure_state : x.report_id = id}

\* C11: whatever the stores and cleanups do, a cleanup that raises partway
\* included, every drift_details and infrastructure_state row a reader can see
\* refers to a report the reader can see, and in every step a stored report
\* either stays with all of its child rows or goes with all of them.
C11_NoOrphanedChildren ==
    /\ [](\A x \in db.drift_details \cup db.infrastructure_state :
             \E r \in db.drift_reports : r.id = x.report_id)
    /\ [][\A r \in db.drift_reports :
             \/ /\ r \in db'.drift_reports
                /\ ChildrenOf(db', r.id) = ChildrenOf(db, r.id)
             \/ /\ r.id \notin {q.id : q \in db'.drift_reports}
                /\ ChildrenOf(db', r.id) = {}]_vars

\* the cleanup removed the first report with its child rows while the second
\* one, stored meanwhile, keeps its own
C11_Witness ==
    /\ returned = <<1, 2>>
    /\ conn[Cleaner].pc = "idle"
    /\ conn[Cleaner].ids = {1}
    /\ {r.id : r \in db.drift_reports} = {2}
    /\ ChildrenOf(db, 1) = {}
    /\ Cardinality(ChildrenOf(db, 2)) > StateRowsOf(json_loads(RowWithId(db.drift_reports, 2).report_data))

\* the stored reports a get_latest_report(environment) or get_reports call
\* selects from
Matching(environment) == EnvRows(db.drift_reports, environment)

\* row a is more recent than row b: later timestamp, or the same timestamp and
\* the higher id
MoreRecent(a, b) ==
    \/ Reading(a.timestamp) > Reading(b.timestamp)
    \/ Reading(a.timestamp) = Reading(b.timestamp) /\ a.id > b.id

\* C12: get_latest_report(environment) returns the matching report with the
\* greatest timestamp and, among several with that timestamp, the one with the
\* highest id (None when no report matches).
C12_LatestByTimestampThenId ==
    last.op = "get_latest_report" =>
       IF Matching(last.environment) = {}
       THEN last.ret = None
       ELSE \E r \in Matching(last.environment) :
               /\ \A q \in Matching(last.environment) : q = r \/ MoreRecent(r, q)
               /\ last.ret = LoadReport(r)

\* the stored reports a get_reports call may return: those of the environment
\* asked for whose timestamp lies within the bounds given
InRange(environment, start_date, end_date) ==
    {r \in Matching(environment) :
        /\ DateGiven(start_date) => Reading(start_date) <= Reading(r.timestamp)
        /\ DateGiven(end_date) => Reading(r.timestamp) <= Reading(end_date)}

\* the result of the get_reports call in `last` holds min(limit, matching)
\* distinct reports that match the environment and lie within the inclusive
\* bounds, newest first, none of them older than a matching report left out
NewestFirstWithinBounds ==
    LET range == InRange(last.environment, last.start_date, last.end_date)
        ret == last.ret
        Chosen == {r \in range : \E i \in 1..Len(ret) : ret[i] = LoadReport(r)}
        most == IF last.limit < 0 THEN 0 ELSE last.limit
    IN  /\ Len(ret) <= most
        /\ Len(ret) = IF Cardinality(range) < most THEN Cardinality(range) ELSE most
        /\ Cardinality(Chosen) = Len(ret)
        /\ \A i \in 1..Len(ret) : \E r \in range : ret[i] = LoadReport(r)
        /\ \A i, j \in 1..Len(ret) :
              i < j => Reading(ret[i].timestamp) >= Reading(ret[j].timestamp)
        /\ \A r \in Chosen, q \in range \ Chosen :
              Reading(r.timestamp) >= Reading(q.timestamp)

\* C13: get_reports(environment, limit, start_date, end_date) returns at most
\* limit reports in descending timestamp order, the most recent ones that match
\* the environment and satisfy start_date <= timestamp <= end_date, each bound
\* applied only when given.
C13_ReportsNewestFirstWithinBounds ==
    last.op = "get_reports" => NewestFirstWithinBounds

\* C13, the part the store does keep: the same for a limit that is not negative.
C13_ReportsNewestFirstWhenLimitNatural ==
    (last.op = "get_reports" /\ last.limit >= 0) => NewestFirstWithinBounds

\* get_reports with limit 1 and both bounds given returned the report that
\* lies on the bounds, while an older report of the environment is stored
C13_Witness ==
    /\ last.op = "get_reports"
    /\ last.environment = "dev"
    /\ last.limit = 1
    /\ DateGiven(last.start_date)
    /\ DateGiven(last.end_date)
    /\ Len(last.ret) = 1
    /\ last.ret[1].timestamp = last.start_date
    /\ Cardinality(Matching("dev")) = 2
    /\ \E q \in Matching("dev") : Reading(q.timestamp) < Reading(last.start_date)

(***************************************************************************)
(* Order of the findings and the status check (SpecAnalyze)                *)
(***************************************************************************)

NetworkFindingTypes ==
    {"missing_network", "network_driver_drift", "network_subnet_drift", "unexpected_network"}

VolumeFindingTypes == {"missing_volume", "volume_driver_drift", "unexpected_volume"}

\* 1 for a container finding, 2 for a network finding, 3 for a volume finding
KindRank(f) ==
    IF f.type \in ContainerFindingTypes THEN 1
    ELSE IF f.type \in NetworkFindingTypes THEN 2
    ELSE IF f.type \in VolumeFindingTypes THEN 3
    ELSE 0

\* C19: in the findings analyze_drift returns for two available snapshots every
\* container finding comes before every network finding and every network
\* finding before every volume finding, and the list is the result for the
\* container partitions, followed by the result for the network partitions,
\* followed by the result for the volume partitions.
C19_FindingsConcatenateByKind ==
    (run_pc \in {"analyzed", "built"} /\ BothAvailable) =>
       /\ \A i, j \in 1..Len(drift_details) :
             i < j => /\ KindRank(drift_details[i]) >= 1
                      /\ KindRank(drift_details[i]) <= KindRank(drift_details[j])
       /\ drift_details =
             analyze_container_drift(ExpectedInfra.containers, ActualInfra.containers).details
             \o analyze_network_drift(ExpectedInfra.networks, ActualInfra.networks).details
             \o analyze_volume_drift(ExpectedInfra.volumes, ActualInfra.volumes).details

\* findings of all three kinds came out of one analysis
C19_Witness ==
    /\ run_pc = "analyzed"
    /\ BothAvailable
    /\ \E i, j, k \in 1..Len(drift_details) :
          /\ KindRank(drift_details[i]) = 1
          /\ KindRank(drift_details[j]) = 2
          /\ KindRank(drift_details[k]) = 3
    /\ Len(drift_details) >= 5

\* apart from the status the actual container is as expected: same image, same
\* ports, the expected restart policy
OtherwiseMatches(e, a) ==
    /\ Get(e, "image", <<>>) = Get(a, "image", <<>>)
    /\ Get(e, "ports", <<>>) = Get(a, "ports", <<>>)
    /\ Get(e, "restart", "") = Get(Get(a, "restart_policy", EmptyDict), "Name", "")

\* C20: for a container in both snapshots, a container_status_drift finding is
\* produced exactly when the expected status is running and the actual container
\* is not running, once and with severity high; when the container otherwise
\* matches, that finding is the only container finding for it.
C20_StatusDrift ==
    (run_pc \in {"analyzed", "built"} /\ BothAvailable) =>
       \A i \in 1..Len(ExpectedInfra.containers) :
          LET n == ExpectedInfra.containers[i].name
              e == ExpectedInfra.containers[i].cfg
              own == Hits(drift_details,
                          LAMBDA f : f.resource = n /\ f.type \in ContainerFindingTypes)
              status == {j \in own : drift_details[j].type = "container_status_drift"}
          IN  HasKey(ActualInfra.containers, n) =>
                 LET a == Lookup(ActualInfra.containers, n)
                     stopped == Get(e, "status", NoneStr) = "running"
                                   /\ ~Get(a, "running", FALSE)
                 IN  /\ Cardinality(status) = IF stopped THEN 1 ELSE 0
                     /\ \A j \in status : drift_details[j].severity = "high"
                     /\ (stopped /\ OtherwiseMatches(e, a)) => own = status

\* the expected running web container is stopped and otherwise as expected
C20_Witness ==
    /\ run_pc = "analyzed"
    /\ BothAvailable
    /\ HasKey(ExpectedInfra.containers, "web")
    /\ HasKey(ActualInfra.containers, "web")
    /\ Get(Lookup(ExpectedInfra.containers, "web"), "status", NoneStr) = "running"
    /\ Get(Lookup(ExpectedInfra.containers, "web"), "restart", "") = "always"
    /\ Get(Lookup(ActualInfra.containers, "web"), "status", NoneStr) = "exited"
    /\ ~Get(Lookup(ActualInfra.containers, "web"), "running", TRUE)
    /\ OtherwiseMatches(Lookup(ExpectedInfra.containers, "web"),
                        Lookup(ActualInfra.containers, "web"))
    /\ Hits(drift_details, LAMBDA f : f.resource = "web")
          = Hits(drift_details, LAMBDA f : f = Finding("container_status_drift", "high", "web"))
    /\ Cardinality(Hits(drift_details, LAMBDA f : f.resource = "web")) = 1

(***************************************************************************)
(* Checks on networks and volumes (SpecAnalyze)                            *)
(***************************************************************************)

\* the findings of a type about a resource
Of(type, n) == Hits(drift_details, LAMBDA f : f.type = type /\ f.resource = n)

\* a set of findings holds `count` findings, all of one severity
CountAndSeverity(own, count, severity) ==
    /\ Cardinality(own) = count
    /\ \A j \in own : drift_details[j].severity = severity

\* C21: for a network in both snapshots network_driver_drift (medium) is
\* produced, once, exactly when the expected driver is not empty and differs
\* from the actual one, and network_subnet_drift (medium) likewise for the
\* subnet; for a volume in both snapshots volume_driver_drift (low) likewise for
\* the driver; a network that differs in its driver only has one finding.
C21_DriverAndSubnetDrift ==
    (run_pc \in {"analyzed", "built"} /\ BothAvailable) =>
       /\ \A i \in 1..Len(ExpectedInfra.networks) :
             LET n == ExpectedInfra.networks[i].name
                 e == ExpectedInfra.networks[i].cfg
             IN  HasKey(ActualInfra.networks, n) =>
                    LET a == Lookup(ActualInfra.networks, n)
                        driver == e.driver # "" /\ e.driver # a.driver
                        subnet == e.subnet # "" /\ e.subnet # a.subnet
                    IN  /\ CountAndSeverity(Of("network_driver_drift", n),
                                            IF driver THEN 1 ELSE 0, "medium")
                        /\ CountAndSeverity(Of("network_subnet_drift", n),
                                            IF subnet THEN 1 ELSE 0, "medium")
                        /\ (e.driver # a.driver /\ e.subnet = a.subnet /\ e.driver # "") =>
                              Cardinality(Hits(drift_details,
                                 LAMBDA f : f.resource = n /\ f.type \in NetworkFindingTypes)) = 1
       /\ \A i \in 1..Len(ExpectedInfra.volumes) :
             LET n == ExpectedInfra.volumes[i].name
                 e == ExpectedInfra.volumes[i].cfg
             IN  HasKey(ActualInfra.volumes, n) =>
                    LET a == Lookup(ActualInfra.volumes, n)
                    IN  CountAndSeverity(Of("volume_driver_drift", n),
                                         IF e.driver # "" /\ e.driver # a.driver THEN 1 ELSE 0,
                                         "low")

\* net1 is expected on bridge and found on host with the expected subnet, and
\* v1 is expected on local and found without a driver
C21_Witness ==
    /\ run_pc = "analyzed"
    /\ BothAvailable
    /\ HasKey(ExpectedInfra.networks, "net1")
    /\ HasKey(ActualInfra.networks, "net1")
    /\ Lookup(ExpectedInfra.networks, "net1").driver = "bridge"
    /\ Lookup(ActualInfra.networks, "net1").driver = "host"
    /\ Lookup(ExpectedInfra.networks, "net1").subnet = Lookup(ActualInfra.networks, "net1").subnet
    /\ Hits(drift_details, LAMBDA f : f.resource = "net1") = Of("network_driver_drift", "net1")
    /\ Cardinality(Of("network_driver_drift", "net1")) = 1
    /\ Cardinality(Of("volume_driver_drift", "v1")) = 1

\* the resource kinds with the type and severity of their unexpected_* finding
UnexpectedKinds ==
    { [kind |-> "containers", type |-> "unexpected_container", severity |-> "medium"],
      [kind |-> "networks", type |-> "unexpected_network", severity |-> "low"],
      [kind |-> "volumes", type |-> "unexpected_volume", severity |-> "low"] }

\* C22: every actual resource whose name is not in the expected partition of
\* its kind has exactly one unexpected_* finding of its kind's severity, a
\* resource that is in it has none, whether the expected partition is empty or
\* not and whether or not a missing_* finding was produced.
C22_UnexpectedResources ==
    (run_pc \in {"analyzed", "built"} /\ BothAvailable) =>
       \A k \in UnexpectedKinds :
          LET expected == ExpectedInfra[k.kind]
              actual == ActualInfra[k.kind]
          IN  \A i \in 1..Len(actual) :
                 CountAndSeverity(Of(k.type, actual[i].name),
                                  IF HasKey(expected, actual[i].name) THEN 0 ELSE 1,
                                  k.severity)

\* the expected container web runs under the name db: one missing_container
\* about web and one unexpected_container about db
C22_Witness ==
    /\ run_pc = "analyzed"
    /\ BothAvailable
    /\ Len(ExpectedInfra.containers) = 1
    /\ ExpectedInfra.containers[1].name = "web"
    /\ Len(ActualInfra.containers) = 1
    /\ ActualInfra.containers[1].name = "db"
    /\ Cardinality(Of("missing_container", "web")) = 1
    /\ Cardinality(Of("unexpected_container", "db")) = 1

\* the resources of a kind that both snapshots hold
InBoth(kind) ==
    {n \in {ExpectedInfra[kind][i].name : i \in 1..Len(ExpectedInfra[kind])} :
        HasKey(ActualInfra[kind], n)}

\* C23: for a resource in both snapshots an expected image, restart policy,
\* network driver, network subnet or volume driver that is empty or absent
\* yields no image_drift, restart_policy_drift, network_driver_drift,
\* network_subnet_drift or volume_driver_drift about it.
C23_EmptyExpectedNoMismatch ==
    (run_pc \in {"analyzed", "built"} /\ BothAvailable) =>
       /\ \A n \in InBoth("containers") :
             LET e == Lookup(ExpectedInfra.containers, n)
             IN  /\ Get(e, "image", <<>>) = <<>> => Of("image_drift", n) = {}
                 /\ Get(e, "restart", "") = "" => Of("restart_policy_drift", n) = {}
       /\ \A n \in InBoth("networks") :
             LET e == Lookup(ExpectedInfra.networks, n)
             IN  /\ Get(e, "driver", "") = "" => Of("network_driver_drift", n) = {}
                 /\ Get(e, "subnet", "") = "" => Of("network_subnet_drift", n) = {}
       /\ \A n \in InBoth("volumes") :
             Get(Lookup(ExpectedInfra.volumes, n), "driver", "") = ""
                => Of("volume_driver_drift", n) = {}

\* web is expected without image and restart policy and runs ng:2 under always,
\* net1 is expected without subnet and has one, v1 is expected without driver
\* and is on local: no mismatch finding about image, restart policy, subnet or
\* volume driver
C23_Witness ==
    /\ run_pc = "analyzed"
    /\ BothAvailable
    /\ InBoth("containers") = {"web"}
    /\ DOMAIN Lookup(ExpectedInfra.containers, "web") = {"name"}
    /\ Get(Lookup(ActualInfra.containers, "web"), "image", <<>>) = <<"n", "g", ":", "2">>
    /\ Get(Lookup(ActualInfra.containers, "web"), "restart_policy", EmptyDict) = [Name |-> "always"]
    /\ InBoth("networks") = {"net1"}
    /\ Lookup(ExpectedInfra.networks, "net1").subnet = ""
    /\ Lookup(ActualInfra.networks, "net1").subnet = "10.0.0.0/24"
    /\ InBoth("volumes") = {"v1"}
    /\ Lookup(ExpectedInfra.volumes, "v1").driver = ""
    /\ Lookup(ActualInfra.volumes, "v1").driver = "local"
    /\ Hits(drift_details,
            LAMBDA f : f.type \in {"image_drift", "restart_policy_drift",
                                   "network_subnet_drift", "volume_driver_drift"}) = {}

\* C24: for a container in both snapshots whose expected image is declared,
\* one image_drift (medium) is produced exactly when the expected image with its
\* tag cut off is not a substring of the actual image with its tag cut off, an
\* empty actual image included.
C24_ImageDrift ==
    (run_pc \in {"analyzed", "built"} /\ BothAvailable) =>
       \A n \in InBoth("containers") :
          LET e == Lookup(ExpectedInfra.containers, n)
              a == Lookup(ActualInfra.containers, n)
              expected_image == SplitColonFirst(Get(e, "image", <<>>))
              actual_image == SplitColonFirst(Get(a, "image", <<>>))
          IN  Get(e, "image", <<>>) # <<>> =>
                 CountAndSeverity(Of("image_drift", n),
                                  IF IsSubstring(expected_image, actual_image) THEN 0 ELSE 1,
                                  "medium")

\* C25: for a container in both snapshots one health_drift (high) is produced
\* exactly when the actual container runs and its health status is neither
\* healthy nor none, whatever the expected descriptor holds; a container that
\* does not run has none.
C25_HealthDrift ==
    (run_pc \in {"analyzed", "built"} /\ BothAvailable) =>
       /\ \A n \in InBoth("containers") :
             LET a == Lookup(ActualInfra.containers, n)
                 unhealthy == /\ Get(a, "running", FALSE)
                              /\ Get(a, "health_status", "none") \notin {"healthy", "none"}
             IN  CountAndSeverity(Of("health_drift", n), IF unhealthy THEN 1 ELSE 0, "high")
       /\ \A i \in 1..Len(ActualInfra.containers) :
             ~Get(ActualInfra.containers[i].cfg, "running", FALSE)
                => Of("health_drift", ActualInfra.containers[i].name) = {}

\* web is expected as created, without a health check, and runs unhealthy
C25_Witness ==
    /\ run_pc = "analyzed"
    /\ BothAvailable
    /\ InBoth("containers") = {"web"}
    /\ Get(Lookup(ExpectedInfra.containers, "web"), "status", NoneStr) = "created"
    /\ Get(Lookup(ActualInfra.containers, "web"), "running", FALSE)
    /\ Get(Lookup(ActualInfra.containers, "web"), "health_status", "none") = "unhealthy"
    /\ Cardinality(Of("health_drift", "web")) = 1

\* the place of a finding type in the table of container checks
CheckRank(type) ==
    CASE type = "container_status_drift" -> 1
      [] type = "image_drift" -> 2
      [] type = "port_count_drift" -> 3
      [] type = "restart_policy_drift" -> 4
      [] type = "health_drift" -> 5
      [] OTHER -> 0

\* C26: the findings of the checks on one expected container appear in the
\* order container_status_drift, image_drift, port_count_drift,
\* restart_policy_drift, health_drift, at most one of each type, and every
\* finding of the pass over the expected containers precedes every
\* unexpected_container finding.
C26_ContainerFindingOrder ==
    (run_pc \in {"analyzed", "built"} /\ BothAvailable) =>
       /\ \A i, j \in 1..Len(drift_details) :
             (/\ i < j
              /\ drift_details[i].resource = drift_details[j].resource
              /\ CheckRank(drift_details[i].type) > 0
              /\ CheckRank(drift_details[j].type) > 0)
                => CheckRank(drift_details[i].type) < CheckRank(drift_details[j].type)
       /\ \A i, j \in 1..Len(drift_details) :
             (/\ drift_details[i].type \in ContainerFindingTypes \ {"unexpected_container"}
              /\ drift_details[j].type = "unexpected_container")
                => i < j

\* web fails the status, image, port count and restart policy checks, in this
\* order, and db runs unexpectedly: its finding comes fifth
C26_Witness ==
    /\ run_pc = "analyzed"
    /\ BothAvailable
    /\ Len(drift_details) = 5
    /\ [i \in 1..5 |-> drift_details[i].type]
          = <<"container_status_drift", "image_drift", "port_count_drift",
              "restart_policy_drift", "unexpected_container">>
    /\ \A i \in 1..4 : drift_details[i].resource = "web"
    /\ drift_details[5].resource = "db"
    /\ ActualInfra.containers[1].name = "db"

(***************************************************************************)
(* Absent snapshots (SpecAnalyze)                                          *)
(***************************************************************************)

\* C16: when the docker snapshot is absent analyze_drift returns no drift and
\* no findings, and the report built from it says docker_state_available =
\* false; when the terraform snapshot is absent the report says
\* terraform_state_available = false; a snapshot that is there is recorded as
\* available. Neither case stops the run before the report is built.
C16_AbsentSnapshotNoDrift ==
    /\ (docker_state = None /\ run_pc \in {"analyzed", "built"}) =>
          (~drift_detected /\ drift_details = <<>>)
    /\ run_pc = "built" =>
          /\ report.raw_data.docker_state_available = (docker_state # None)
          /\ report.raw_data.terraform_state_available = (terraform_state # None)
          /\ docker_state = None =>
                /\ ~report.drift_detected
                /\ report.drift_details = <<>>
                /\ report.summary.total_issues = 0

\* a report was built for expected containers without a docker snapshot
C16_Witness ==
    /\ run_pc = "built"
    /\ docker_state = None
    /\ terraform_state # None
    /\ Len(ExpectedInfra.containers) > 0
    /\ ~report.raw_data.docker_state_available
    /\ report.raw_data.terraform_state_available
    /\ report.infrastructure_state.expected.containers > 0

\* C15: store_report is append-only: every step of a store_report call, the
\* commit of a successful one and the rollback of a failing one included, leaves
\* each stored report row and each of its child rows as it was; rows go only
\* when cleanup_old_reports commits.
C15_StoreAppendOnly ==
    [][conn'[Cleaner] = conn[Cleaner] =>
          /\ db.drift_reports \subseteq db'.drift_reports
          /\ db.drift_details \subseteq db'.drift_details
          /\ db.infrastructure_state \subseteq db'.infrastructure_state]_vars

\* two reports with findings are stored and a third store_report has failed
\* after writing rows
C15_Witness ==
    /\ returned = <<1, 2>>
    /\ {r.id : r \in db.drift_reports} = {1, 2}
    /\ \A r \in db.drift_reports : ChildrenOf(db, r.id) # {}
    /\ \E p \in Writers :
          /\ conn[p].pc = "failed"
          /\ conn[p].report_id = 3

(***************************************************************************)
(* DriftDetector.extract_expected_infrastructure: the expected partitions  *)
(* read from the resources of `terraform show -json`                       *)
(***************************************************************************)

\* the text 'sha256:'
Sha256 == <<"s", "h", "a", "2", "5", "6", ":">>

\* str.split(sep)[0]: the text before the first occurrence of sep
SplitFirst(s, sep) ==
    IF IsSubstring(sep, s)
    THEN LET at == CHOOSE i \in 0..(Len(s) - Len(sep)) :
                      /\ SubSeq(s, i + 1, i + Len(sep)) = sep
                      /\ \A j \in 0..(i - 1) : SubSeq(s, j + 1, j + Len(sep)) # sep
         IN  SubSeq(s, 1, at)
    ELSE s

\* partition[name] = cfg on an insertion-ordered dict
Put(part, n, cfg) ==
    IF HasKey(part, n)
    THEN [i \in 1..Len(part) |-> IF part[i].name = n THEN [name |-> n, cfg |-> cfg] ELSE part[i]]
    ELSE Append(part, [name |-> n, cfg |-> cfg])

\* `if container_name:` and its like: a name that is there and not empty
Named(values) == Get(values, "name", NoneStr) \notin {NoneStr, ""}

\* the descriptor built for a named resource of each type
ExpectedDescriptor(resource_type, values) ==
    CASE resource_type = "docker_container" ->
            [name |-> values.name,
             image |-> IF IsSubstring(Sha256, Get(values, "image", <<>>))
                       THEN SplitFirst(Get(values, "image", <<>>), Sha256)
                       ELSE Get(values, "image", <<>>),
             ports |-> Get(values, "ports", <<>>),
             env |-> Get(values, "env", <<>>),
             networks |-> [i \in 1..Len(Get(values, "networks_advanced", <<>>)) |->
                             Get(values.networks_advanced[i], "name", NoneStr)],
             restart |-> Get(values, "restart", ""),
             status |-> IF Get(values, "must_run", FALSE) THEN "running" ELSE "created"]
      [] resource_type = "docker_network" ->
            [name |-> values.name,
             driver |-> Get(values, "driver", ""),
             subnet |-> IF Get(values, "ipam_config", <<>>) # <<>>
                        THEN Get(values.ipam_config[1], "subnet", "")
                        ELSE ""]
      [] resource_type = "docker_volume" ->
            [name |-> values.name, driver |-> Get(values, "driver", "")]
      [] resource_type = "docker_image" ->
            [name |-> values.name,
             repo_digest |-> Get(values, "repo_digest", ""),
             image_id |-> Get(values, "image_id", "")]

\* the partition a resource type is filed under
PartitionOf(resource_type) ==
    CASE resource_type = "docker_container" -> "containers"
      [] resource_type = "docker_network" -> "networks"
      [] resource_type = "docker_volume" -> "volumes"
      [] resource_type = "docker_image" -> "images"
      [] OTHER -> NoneStr

\* the loop over the resources from the i-th on
RECURSIVE ExtractFrom(_, _, _)
ExtractFrom(expected, i, resources) ==
    IF i > Len(resources) THEN expected
    ELSE LET resource_type == Get(resources[i], "type", NoneStr)
             values == Get(resources[i], "values", EmptyDict)
             partition == PartitionOf(resource_type)
         IN  IF partition # NoneStr /\ Named(values)
             THEN ExtractFrom([expected EXCEPT ![partition] =
                                  Put(@, values.name, ExpectedDescriptor(resource_type, values))],
                              i + 1, resources)
             ELSE ExtractFrom(expected, i + 1, resources)

extract_expected_infrastructure(state_data) ==
    LET expected == [containers |-> <<>>, networks |-> <<>>, volumes |-> <<>>, images |-> <<>>]
    IN  IF state_data = EmptyDict \/ "values" \notin DOMAIN state_data THEN expected
        ELSE ExtractFrom(expected, 1,
                Get(Get(Get(state_data, "values", EmptyDict), "root_module", EmptyDict),
                    "resources", <<>>))

\* get_terraform_state 68-76: the state a parsed `terraform show -json` gives
TerraformStateOf(state_data) ==
    [raw_state |-> state_data,
     expected_infrastructure |-> extract_expected_infrastructure(state_data)]

Resource(type, name, values) == [type |-> type, name |-> name, values |-> values]

StateData(resources) == [values |-> [root_module |-> [resources |-> resources]]]

\* outputs of `terraform show -json`: a state without values; a pinned web
\* container next to a container without a name; a network without a name next
\* to a volume; a volume with an empty name next to a named network
RawStates ==
    {[format_version |-> "1.0"],
     StateData(<<Resource("docker_container", "web",
                    [name |-> "web",
                     image |-> <<"n", "g", "@">> \o Sha256 \o <<"a", "b">>,
                     must_run |-> TRUE, restart |-> "always", ports |-> <<80>>]),
                 Resource("docker_container", "worker",
                    [image |-> <<"n", "g", ":", "1">>, must_run |-> TRUE])>>),
     StateData(<<Resource("docker_network", "net", [driver |-> "bridge"]),
                 Resource("docker_volume", "data", [name |-> "v1", driver |-> "local"])>>),
     StateData(<<Resource("docker_volume", "data", [name |-> "", driver |-> "local"]),
                 Resource("docker_network", "net",
                    [name |-> "n1", driver |-> "bridge",
                     ipam_config |-> <<[subnet |-> "10.0.0.0/24"]>>])>>)}

(***************************************************************************)
(* Specification SpecRun: one whole run of main(): run_drift_detection     *)
(* analyzes, builds the report, saves it, notifies, logs the summary and   *)
(* returns; main exits with the code derived from the report.              *)
(***************************************************************************)

\* the snapshots of the runs followed to their end
RunTerraformStates == {None, InSync, Drifted} \cup {TerraformStateOf(raw) : raw \in RawStates}
RunDockerStates == {None, InSyncActual, DriftedActual}

\* self.config: whether monitoring.always_notify is set and whether
\* monitoring.webhook_url is configured
Configs == [always_notify : BOOLEAN, webhook_url : BOOLEAN]

InitRun ==
    /\ terraform_state \in RunTerraformStates
    /\ docker_state \in RunDockerStates
    /\ config \in Configs
    /\ run_pc = "collected"
    /\ drift_detected = FALSE
    /\ drift_details = <<>>
    /\ report = None
    /\ out = NoOutcome
    /\ StoreIdle
    /\ ConnectionsIdle

\* the heading, the counts and the number of issue lines of the message
format_notification_message(rep) ==
    IF rep.drift_detected
    THEN [headline |-> "IaC Drift Detected",
          environment |-> rep.environment,
          total_issues |-> rep.summary.total_issues,
          high_severity |-> rep.summary.high_severity,
          medium_severity |-> rep.summary.medium_severity,
          issues |-> IF Len(rep.drift_details) > 5 THEN 5 ELSE Len(rep.drift_details),
          more |-> IF Len(rep.drift_details) > 5 THEN Len(rep.drift_details) - 5 ELSE 0,
          timestamp |-> rep.timestamp]
    ELSE [headline |-> "No Drift Detected",
          environment |-> rep.environment,
          body |-> "Infrastructure is in sync with desired state.",
          timestamp |-> rep.timestamp]

\* save_report: write the file, then store the report; an exception of the
\* store is logged and swallowed, one of the file write skips the store
SaveReport ==
    /\ run_pc = "built"
    /\ \/ /\ db' = store_report(db, report, now)
          /\ out' = [out EXCEPT !.report_file = "drift-report.json",
                                !.store = "stored",
                                !.report_id = db'.sqlite_sequence.drift_reports]
       \/ /\ db' = db
          /\ out' = [out EXCEPT !.report_file = "drift-report.json", !.store = "failed"]
       \/ /\ db' = db
          /\ out' = [out EXCEPT !.report_file = NoneStr, !.store = "skipped"]
    /\ run_pc' = "saved"
    /\ UNCHANGED <<terraform_state, docker_state, drift_detected, drift_details, report,
                   config, now, last, conc_vars, twin>>

\* run_drift_detection 756-757 with send_notification: the message goes out
\* when drift was detected or always_notify is set, a webhook is configured and
\* the post succeeds
Notify ==
    /\ run_pc = "saved"
    /\ IF (drift_detected \/ config.always_notify) /\ config.webhook_url
       THEN \/ out' = [out EXCEPT !.notification = format_notification_message(report)]
            \/ out' = out
       ELSE out' = out
    /\ run_pc' = "notified"
    /\ UNCHANGED <<terraform_state, docker_state, drift_detected, drift_details, report,
                   config, store_vars, conc_vars, twin>>

\* run_drift_detection 760-767: the summary line and return report
Summarize ==
    /\ run_pc = "notified"
    /\ out' = [out EXCEPT
          !.log = IF drift_detected
                  THEN "Drift detected!"
                  ELSE "No drift detected. Infrastructure is in sync.",
          !.ret = report]
    /\ run_pc' = "returned"
    /\ UNCHANGED <<terraform_state, docker_state, drift_detected, drift_details, report,
                   config, store_vars, conc_vars, twin>>

\* main 789-790: sys.exit(1 if report['drift_detected'] else 0)
Exit ==
    /\ run_pc = "returned"
    /\ out' = [out EXCEPT !.exit_code = IF out.ret.drift_detected THEN 1 ELSE 0]
    /\ run_pc' = "exited"
    /\ UNCHANGED <<terraform_state, docker_state, drift_detected, drift_details, report,
                   config, store_vars, conc_vars, twin>>

NextRun == Analyze \/ GenerateReport \/ SaveReport \/ Notify \/ Summarize \/ Exit

SpecRun == InitRun /\ [][NextRun]_vars

(***************************************************************************)
(* Properties of a whole run (SpecRun)                                     *)
(***************************************************************************)

\* C14: a store_report that fails during a run is fatal to the run: the
\* exception leaves save_report and run_drift_detection, so the run does not go
\* on to notify, log its summary, return its report and exit as usual.
C14_StoreFailureIsFatal ==
    out.store = "failed" => run_pc \notin {"saved", "notified", "returned", "exited"}

\* C17: a run without a docker snapshot is not given the in-sync outcome: no
\* 'No drift detected. Infrastructure is in sync.' summary, no 'No Drift
\* Detected' notification, no exit code 0.
C17_AbsentSnapshotInconclusive ==
    docker_state = None =>
       /\ out.log # "No drift detected. Infrastructure is in sync."
       /\ (out.notification # None => out.notification.headline # "No Drift Detected")
       /\ out.exit_code # 0

\* the resources of the terraform output that lack a name
Unnamed ==
    IF terraform_state = None \/ "raw_state" \notin DOMAIN terraform_state
          \/ "values" \notin DOMAIN terraform_state.raw_state
    THEN {}
    ELSE LET resources == terraform_state.raw_state.values.root_module.resources
         IN  {i \in 1..Len(resources) :
                 /\ PartitionOf(resources[i].type) # NoneStr
                 /\ ~Named(resources[i].values)}

\* the finding types of the three comparisons
ComparisonFindingTypes ==
    ContainerFindingTypes
    \cup {"missing_network", "network_driver_drift", "network_subnet_drift", "unexpected_network",
          "missing_volume", "volume_driver_drift", "unexpected_volume"}

\* C18: when a resource of the expected snapshot lacks its name and the
\* analysis has run on both snapshots, the resource is left out of its partition
\* and the findings contain a low-severity finding that records it, i.e. one
\* that is not a finding of the comparisons.
C18_MalformedDescriptorRecorded ==
    (Unnamed # {} /\ docker_state # None /\ run_pc \notin {"collected"}) =>
       /\ \A k \in {"containers", "networks", "volumes"} :
             \A i \in 1..Len(ExpectedInfra[k]) : ExpectedInfra[k][i].name \notin {NoneStr, ""}
       /\ \E j \in 1..Len(drift_details) :
             /\ drift_details[j].severity = "low"
             /\ drift_details[j].type \notin ComparisonFindingTypes

(***************************************************************************)
(* Trend series of the report store (Spec)                                 *)
(***************************************************************************)

\* the reports inside the window of a read made at `clock`, under its filter
InWindowAt(environment, days, clock) ==
    {r \in db.drift_reports :
        /\ Reading(r.timestamp) >= clock - timedelta(days)
        /\ Truthy(environment) => r.environment = environment}

\* the resource kinds a report counts
ResourceKinds == {"containers", "containers_running", "networks", "volumes", "images"}

\* the text of the count of a kind on one side of a stored report, '' if the
\* side does not count the kind
CountText(row, side, kind) ==
    LET counts == Get(Get(json_loads(row.report_data), "infrastructure_state", EmptyDict),
                      side, EmptyDict)
    IN  IF kind \in DOMAIN counts THEN str(counts[kind]) ELSE <<>>

\* C27: get_infrastructure_trends(environment, days) returns a mapping whose
\* keys are resource kinds; the series of a kind is ordered by ascending
\* timestamp and has one entry per report inside the window that matches the
\* environment filter, carrying the expected and the actual value of the kind in
\* that report.
C27_InfrastructureTrends ==
    last.op = "get_infrastructure_trends" =>
       LET reports == InWindowAt(last.environment, last.days, last.clock)
       IN  /\ DOMAIN last.ret \subseteq ResourceKinds
           /\ \A kind \in DOMAIN last.ret :
                 LET series == last.ret[kind]
                 IN  /\ \A i, j \in 1..Len(series) :
                            i < j => Reading(series[i].timestamp) <= Reading(series[j].timestamp)
                     /\ Len(series) = Cardinality(reports)
                     /\ \A i \in 1..Len(series) :
                           \E r \in reports :
                              /\ series[i].timestamp = r.timestamp
                              /\ series[i].expected = CountText(r, "expected", kind)
                              /\ series[i].actual = CountText(r, "actual", kind)

\* C28: get_drift_statistics(environment, days) returns a trend with one entry
\* per calendar date on which a report inside the window and matching the
\* filter exists, by strictly ascending date; the entry of a date counts the
\* reports and the drift reports of that date, so the report counts add up to
\* summary.total_reports.
C28_DailyTrend ==
    last.op = "get_drift_statistics" =>
       LET reports == InWindowAt(last.environment, last.days, last.clock)
           dates == {DateOf(r.timestamp) : r \in reports}
           on(date) == {r \in reports : DateOf(r.timestamp) = date}
       IN  /\ last.ret # TypeError
           /\ LET trend == last.ret.trend
              IN  /\ {trend[i].report_date : i \in 1..Len(trend)} = dates
                  /\ \A i, j \in 1..Len(trend) :
                        i < j => trend[i].report_date < trend[j].report_date
                  /\ \A i \in 1..Len(trend) :
                        /\ trend[i].reports_count = Cardinality(on(trend[i].report_date))
                        /\ trend[i].drift_count =
                              Cardinality({r \in on(trend[i].report_date) :
                                              json_loads(r.report_data).drift_detected})
                  /\ SumOver({trend[i] : i \in 1..Len(trend)}, "reports_count")
                        = last.ret.summary.total_reports

(***************************************************************************)
(* Specification SpecIso: the store next to second stores that miss the    *)
(* reports of other environments. For every environment E, twin[E] gets    *)
(* the calls db gets, at the same clock readings, except the store_report  *)
(* calls for reports of environments other than E.                         *)
(***************************************************************************)

StoreReportBoth ==
    \E rep \in StoreInputs :
        /\ db.sqlite_sequence.drift_reports < MaxReports
        /\ db' = store_report(db, rep, now)
        /\ twin' = [e \in Environments |->
                      IF Get(rep, "environment", "unknown") = e
                      THEN store_report(twin[e], rep, now)
                      ELSE twin[e]]
        /\ last' = [op |-> "store_report", report |-> rep, clock |-> now,
                    ret |-> db'.sqlite_sequence.drift_reports]
        /\ UNCHANGED <<now, detector_vars, conc_vars>>

CleanupOldReportsBoth ==
    \E days \in 0..MaxDays :
        LET res == cleanup_old_reports(db, days, now)
        IN  /\ db' = res.db
            /\ twin' = [e \in Environments |-> cleanup_old_reports(twin[e], days, now).db]
            /\ last' = [op |-> "cleanup_old_reports", days |-> days, clock |-> now,
                        ret |-> res.ret]
            /\ UNCHANGED <<now, detector_vars, conc_vars>>

NextIso ==
    \/ Tick
    \/ StoreReportBoth
    \/ GetLatestReport
    \/ GetReports
    \/ GetDriftStatistics
    \/ GetInfrastructureTrends
    \/ CleanupOldReportsBoth

SpecIso == Init /\ [][NextIso]_vars

\* the results a read with the arguments of `last` may return on the store d
ResultsOn(d) ==
    CASE last.op = "get_latest_report" -> get_latest_report(d, last.environment)
      [] last.op = "get_reports" ->
            get_reports(d, last.environment, last.limit, last.start_date, last.end_date)
      [] last.op = "get_drift_statistics" ->
            {get_drift_statistics(d, last.environment, last.days, last.clock)}
      [] last.op = "get_infrastructure_trends" ->
            get_infrastructure_trends(d, last.environment, last.days, last.clock)

\* the last operation is a read filtered by an environment
FilteredRead ==
    /\ last.op \in {"get_latest_report", "get_reports", "get_drift_statistics",
                    "get_infrastructure_trends"}
    /\ Truthy(last.environment)

\* C29 as claimed: a read filtered by a non-empty environment E returns the same
\* results on two stores whose histories differ only in the reports stored
\* under other environments.
C29_IsolationExact ==
    FilteredRead =>
       /\ last.ret \in ResultsOn(twin[last.environment])
       /\ ResultsOn(db) = ResultsOn(twin[last.environment])

\* a report without the id the store assigned to it
WithoutId(rep) ==
    IF "id" \in DOMAIN rep THEN [k \in DOMAIN rep \ {"id"} |-> rep[k]] ELSE rep

\* a result of a read without the store-assigned ids of its reports
WithoutIds(ret) ==
    CASE last.op = "get_latest_report" -> WithoutId(ret)
      [] last.op = "get_reports" -> [i \in 1..Len(ret) |-> WithoutId(ret[i])]
      [] OTHER -> ret

\* C29, amended: the two stores return the same results apart from the ids of
\* the reports, which the store assigns from one sequence for all
\* environments; statistics and trends are the same.
C29_IsolationUpToIds ==
    FilteredRead =>
       {WithoutIds(ret) : ret \in ResultsOn(db)}
          = {WithoutIds(ret) : ret \in ResultsOn(twin[last.environment])}

\* a prod report was stored before a dev report, later in time than it:
\* get_latest_report("dev") returns the dev report, with id 2 where the store
\* without the prod report has it under id 1
C29_Witness ==
    /\ last.op = "get_latest_report"
    /\ last.environment = "dev"
    /\ last.ret # None
    /\ last.ret.id = 2
    /\ \E r \in db.drift_reports :
          /\ r.environment = "prod"
          /\ r.id = 1
          /\ Reading(r.timestamp) > Reading(last.ret.timestamp)
    /\ {r.id : r \in twin["dev"].drift_reports} = {1}

(***************************************************************************)
(* Denormalized counts of a stored report (Spec)                           *)
(***************************************************************************)

\* the severity columns of drift_reports
SeverityColumns ==
    { [severity |-> "high", column |-> "high_severity"],
      [severity |-> "medium", column |-> "medium_severity"],
      [severity |-> "low", column |-> "low_severity"] }

\* C30: for every stored report, as long as it exists, the number of its
\* drift_details rows equals its total_issues column and the number of those
\* rows of each severity equals its high_severity, medium_severity and
\* low_severity column; the summary and the findings of the serialized report
\* body give the same numbers.
C30_ColumnsMatchDetailRows ==
    \A r \in db.drift_reports :
       LET rows == {x \in db.drift_details : x.report_id = r.id}
           body == json_loads(r.report_data)
       IN  /\ Cardinality(rows) = r.total_issues
           /\ Len(body.drift_details) = r.total_issues
           /\ body.summary.total_issues = r.total_issues
           /\ \A c \in SeverityColumns :
                 /\ Cardinality({x \in rows : x.severity = c.severity}) = r[c.column]
                 /\ body.summary[c.column] = r[c.column]
                 /\ CountSeverity(body.drift_details, c.severity) = r[c.column]

\* a report with findings of two severities was stored first and is still
\* there after a second store_report and a cleanup that removed the second
C30_Witness ==
    /\ last.op = "cleanup_old_reports"
    /\ last.ret = 1
    /\ db.sqlite_sequence.drift_reports = 2
    /\ \E r \in db.drift_reports :
          /\ r.id = 1
          /\ r.total_issues >= 2
          /\ r.high_severity >= 1
          /\ r.low_severity >= 1
          /\ Cardinality({x \in db.drift_details : x.report_id = 1}) = r.total_issues

====
